---- MODULE Spec2Model ----
(***************************************************************************)
(* Runtime control plane of the agent orchestrator.                        *)
(*                                                                         *)
(* Part I   Failure economics: categorizeError, shouldRetry,               *)
(*          executeWithRetry (src/src/agents/retry-policy.ts,              *)
(*          error-taxonomy.ts, escalation.ts).                             *)
(* Part II  Session auto-compaction guard over the lock-serialized session *)
(*          store (session-auto-compact.ts).                               *)
(***************************************************************************)
EXTENDS Integers, Sequences, FiniteSets, TLC

VARIABLES
  \* ---- Part I: one executeWithRetry call -------------------------------
  rpc,                \* position of the call: "run" | "onRetry" | "onEscalation" | "resolved" | "rejected"
  retryCount,         \* let retryCount (retry-policy.ts:75)
  runCalls,           \* number of invocations of params.run
  onRetryCalls,       \* number of invocations of params.onRetry
  onEscalationCalls,  \* number of invocations of params.onEscalation
  retryLog,           \* the invocations in the order they were made
  thrown,             \* the errors thrown by run, in order
  retryArgs,          \* arguments of the onRetry firings: <<decision, attempt>>
  escInfos,           \* arguments of the onEscalation firings (EscalationInfo)
  runValue,           \* value the last invocation of run resolved with (NoValue: none did)
  resolved,           \* value executeWithRetry resolved with (NoValue before)
  rejected,           \* error executeWithRetry rejected with (NoError before)
  \* ---- Part II: the session store and its callers -----------------------
  store,              \* the session store file: sessionKey -> SessionEntry
  lockHolder,         \* process holding the store's file lock (NoProc: free)
  spc,                \* position of each process in decideAndRecordSessionAutoCompact
  call,               \* parameters of the call each process is executing
  draft,              \* the store object each process loaded under the lock
  decision,           \* let decision (session-auto-compact.ts:171)
  lastReturn,         \* what the last finished call of each process returned
  concurrentWith,     \* processes whose call overlapped the current call of each process
  lastHit,            \* per session key: time and tokens of the last threshold-hit returned
  \* ---- Part II: the other writers of the session store -----------------
  warned,             \* let warned (session-token-warning.ts:52), per process
  warnLog,            \* per session key: the warnings recorded so far, as [at, tokens]
  written,            \* session keys for which a finished update added an entry
  \* ---- Part III: the auth-profile store and env autosync ----------------
  authStore,          \* auth-profiles.json: profileId -> credential
  env,                \* process.env: variable -> value ("" when unset)
  syncResult,         \* outcome of the last autosyncEnvCredentialsToAuthProfiles call
  memProfiles,        \* store.profiles as the last updater run left it in memory
  consecutive,        \* autosync runs completed since the env or the file last changed
  raisedAt,           \* provider whose evaluation raised in the autosync run just made (0: none)
  listeners,          \* telemetry.ts: the module-level listeners array
  frames,             \* emitTelemetry activations in progress, innermost last
  emitted,            \* number of emitTelemetry calls made; events are numbered in call order
  seen,               \* per listener function, the events it was invoked with, in order
  outcome,            \* per event, how its emitTelemetry call ended
  threwOn,            \* per event, the listeners that threw when invoked with it
  unsubscribe,        \* Scoreboard.unsubscribe: 0 for null, else the closure it removes
  closures,           \* number of (event) => this.record(event) closures created by start()
  totalEvents,        \* Scoreboard.totalEvents
  sbLast,             \* the last Scoreboard call and how often it was repeated
  sbAtEmit,           \* per event, sbLast when the event was emitted
  \* ---- Part II: decideSessionAutoCompact applied to drawn inputs --------
  din,                \* the parameters
  dout,               \* the decision returned (NoDecision before the call)
  dout2               \* the decision of a second invocation, made with
                      \* lastAutoCompactAtTokens := totalTokens (NoDecision before it)

retryVars == <<rpc, retryCount, runCalls, onRetryCalls, onEscalationCalls,
               retryLog, thrown, retryArgs, escInfos, runValue, resolved, rejected>>

storeVars == <<store, lockHolder, spc, call, draft, decision, lastReturn,
               concurrentWith, lastHit>>

opsVars == <<warned, warnLog, written>>

decideVars == <<din, dout, dout2>>

authVars == <<authStore, env, syncResult, memProfiles, consecutive, raisedAt>>

teleVars == <<listeners, frames, emitted, seen, outcome, threwOn,
              unsubscribe, closures, totalEvents, sbLast, sbAtEmit>>

VARIABLES
  \* ---- Part V: one withTelemetry call at a time --------------------------
  wpc,                \* position of the call: "idle" | "running" | "try" | "catch" | "resolved" | "rejected"
  wStart,             \* const start = Date.now()
  fnOutcome,          \* how fn settled (NoOutcome while it has not)
  wResult,            \* what withTelemetry settled with (NoOutcome before)
  wEvents,            \* the events this call passed to emitTelemetry, in order
  wtEvent             \* per event, the fields withTelemetry passed (NoFields for other events)

wtVars == <<wpc, wStart, fnOutcome, wResult, wEvents, wtEvent>>

VARIABLES
  \* ---- Part VI: trace context --------------------------------------------
  taskStore,          \* traceStorage: per task, the store AsyncLocalStorage holds for it
  savedStores,        \* per task, the stores its active run() calls restore on exit
  entered,            \* per task, the ctx arguments of its active withTraceContext calls
  createdIn           \* per task, the context it was created in ("unborn": not created)

traceVars == <<taskStore, savedStores, entered, createdIn>>

VARIABLES
  \* ---- Part VII: pure operations ------------------------------------------
  lastCall            \* the operation applied, with its arguments and its result (NoCall before)

callVars == <<lastCall>>

VARIABLES
  \* ---- Part IV: the Scoreboard's entries ----------------------------------
  entries,            \* Scoreboard.entries: key -> ScoreEntry
  uptimeSince,        \* Scoreboard.uptimeSince
  sbClock,            \* Date.now() as the scoreboard reads it: one tick per record() or reset()
  sinceReset          \* the events passed to record() since the last reset(), in order

scoreVars == <<entries, uptimeSince, sbClock, sinceReset>>

VARIABLES
  \* ---- Part X: telemetry sessions ----------------------------------------
  activeSessions,     \* telemetry.ts: the activeSessions map, session id -> partial record
  storedRecords,      \* the records storeTelemetry stored, in order
  sessionClock,       \* Date.now()
  sessionsStarted,    \* number of startTelemetrySession calls made; ids are numbered in call order
  removedBy,          \* per session id, the call that removed it from activeSessions ("none": not removed)
  updatesOf,          \* per session id, the fields set through updateTelemetrySession while it was active
  completedWith       \* per session id, the result its session was completed with (<<>> before)

sessVars == <<activeSessions, storedRecords, sessionClock, sessionsStarted, removedBy, updatesOf, completedWith>>

vars == <<retryVars, storeVars, opsVars, decideVars, authVars, teleVars, wtVars, traceVars, callVars, scoreVars, sessVars>>

(***************************************************************************)
(* Part I.  Errors.                                                        *)
(*                                                                         *)
(* An error object is a record: `origin` and `seq` give its identity (who  *)
(* threw it, and on which invocation), the other fields are what the       *)
(* taxonomy inspects: `failover` is the reason of a FailoverError ("none"  *)
(* for any other value), `status` the HTTP status (0: absent), `code` the  *)
(* system error code ("none": absent), `msg` the set of message patterns   *)
(* the message text matches.                                               *)
(***************************************************************************)
FailoverReasons == {"rate_limit", "auth", "billing", "timeout", "format", "unknown"}

ErrorCategories == {"rate_limit", "auth", "timeout", "invalid_request",
                    "server_error", "network", "unknown"}

TRANSIENT_CATEGORIES == {"rate_limit", "timeout", "server_error", "network"}

PERMANENT_CATEGORIES == {"auth", "invalid_request"}

\* NETWORK_CODE_RE
NetworkCodes == {"ENOTFOUND", "ECONNREFUSED", "EHOSTUNREACH", "ENETUNREACH",
                 "EAI_AGAIN", "EPIPE"}

Shape(f, s, c, m) == [failover |-> f, status |-> s, code |-> c, msg |-> m]

\* The shapes of error run() throws in the model: every FailoverError reason,
\* and plain errors over a few statuses, codes and message texts.
ErrorShapes ==
  { Shape(f, 0, "none", {}) : f \in FailoverReasons }
  \cup { Shape("rate_limit", 429, "none", {"rate_limit"}) }
  \cup { Shape("none", s, c, m) :
           s \in {0, 401, 429, 500},
           c \in {"none", "ECONNREFUSED", "ETIMEDOUT"},
           m \in {{}, {"network"}, {"server"}, {"timeout"}} }

MkError(origin, seq, shape) ==
  [origin |-> origin, seq |-> seq, failover |-> shape.failover,
   status |-> shape.status, code |-> shape.code, msg |-> shape.msg]

NoError == MkError("none", 0, Shape("none", 0, "none", {}))

\* What a throwing callback throws: an error object that is not run's.
CallbackError(origin, seq) == MkError(origin, seq, Shape("none", 0, "none", {}))

NoValue == "none"

Values == {"ok", "recovered"}

\* failover-error.ts (not in src/): instanceof FailoverError
isFailoverError(err) == err.failover # "none"

\* failover-error.ts (not in src/): the classification that precedes the
\* taxonomy's own network / server checks (spec 4.B: status, ETIMEDOUT, and
\* the timeout / rate-limit / auth message patterns). "none" is null.
resolveFailoverReasonFromError(err) ==
  IF err.status = 429 THEN "rate_limit"
  ELSE IF err.status \in {401, 403} THEN "auth"
  ELSE IF err.status = 402 THEN "billing"
  ELSE IF err.status = 408 THEN "timeout"
  ELSE IF err.code = "ETIMEDOUT" THEN "timeout"
  ELSE IF "timeout" \in err.msg THEN "timeout"
  ELSE IF "rate_limit" \in err.msg THEN "rate_limit"
  ELSE IF "auth" \in err.msg THEN "auth"
  ELSE "none"

failoverReasonToCategory(reason) ==
  CASE reason = "rate_limit" -> "rate_limit"
    [] reason \in {"auth", "billing"} -> "auth"
    [] reason = "timeout" -> "timeout"
    [] reason = "format" -> "invalid_request"
    [] reason = "unknown" -> "unknown"
    [] OTHER -> "unknown"

categorizeError(err) ==
  IF isFailoverError(err) THEN failoverReasonToCategory(err.failover)
  ELSE IF resolveFailoverReasonFromError(err) # "none"
    THEN failoverReasonToCategory(resolveFailoverReasonFromError(err))
  ELSE IF err.code # "none" /\ err.code \in NetworkCodes THEN "network"
  ELSE IF "network" \in err.msg THEN "network"
  ELSE IF err.status # 0 /\ err.status >= 500 /\ err.status < 600 THEN "server_error"
  ELSE IF "server" \in err.msg THEN "server_error"
  ELSE "unknown"

isTransientCategory(category) == category \in TRANSIENT_CATEGORIES

isPermanentCategory(category) == category \in PERMANENT_CATEGORIES

\* The reason strings of shouldRetry, as the pieces of their template
\* literals: the fixed text, then the interpolated value.
\* `Max retries exhausted (retryCount=${ctx.retryCount})`
MaxRetriesExhausted(count) ==
  <<"Max retries exhausted", " (retryCount=", ToString(count), ")">>

\* `Transient error (${category}), retry #1 allowed`
TransientRetryAllowed(category) ==
  <<"Transient error (", category, "), retry #1 allowed">>

\* `Non-retriable error category: ${category}`
NonRetriable(category) == <<"Non-retriable error category: ", category>>

\* Faulty variant of shouldRetry: a second retry is allowed.
shouldRetryTwice(err, ctx) ==
  IF ctx.retryCount >= 2
    THEN [shouldRetry |-> FALSE, category |-> categorizeError(err), reason |-> MaxRetriesExhausted(ctx.retryCount)]
  ELSE IF isTransientCategory(categorizeError(err))
    THEN [shouldRetry |-> TRUE, category |-> categorizeError(err), reason |-> TransientRetryAllowed(categorizeError(err))]
    ELSE [shouldRetry |-> FALSE, category |-> categorizeError(err), reason |-> NonRetriable(categorizeError(err))]

\* Faulty variant of shouldRetry: "unknown" errors are retried like transient ones.
shouldRetryUnknownToo(err, ctx) ==
  IF ctx.retryCount >= 1
    THEN [shouldRetry |-> FALSE, category |-> categorizeError(err), reason |-> MaxRetriesExhausted(ctx.retryCount)]
  ELSE IF categorizeError(err) \notin PERMANENT_CATEGORIES
    THEN [shouldRetry |-> TRUE, category |-> categorizeError(err), reason |-> TransientRetryAllowed(categorizeError(err))]
    ELSE [shouldRetry |-> FALSE, category |-> categorizeError(err), reason |-> NonRetriable(categorizeError(err))]

shouldRetry(err, ctx) ==
  IF ctx.retryCount >= 1
    THEN [shouldRetry |-> FALSE, category |-> categorizeError(err), reason |-> MaxRetriesExhausted(ctx.retryCount)]
  ELSE IF isTransientCategory(categorizeError(err))
    THEN [shouldRetry |-> TRUE, category |-> categorizeError(err), reason |-> TransientRetryAllowed(categorizeError(err))]
    ELSE [shouldRetry |-> FALSE, category |-> categorizeError(err), reason |-> NonRetriable(categorizeError(err))]

\* escalation.ts escalate(): the fields that do not depend on the wall clock.
escalate(err, ctx) ==
  [category |-> categorizeError(err), retryCount |-> ctx.retryCount,
   errorCode |-> err.code, httpStatus |-> err.status]

(***************************************************************************)
(* executeWithRetry as a state machine.  run() and the two callbacks are   *)
(* the caller's closures: each invocation either returns or throws.        *)
(* An omitted callback (params.onRetry?.()) behaves as one that returns.   *)
(***************************************************************************)
\* return await params.run() (retry-policy.ts:80)
Returned(v) == v

\* try { return await params.run(); }  -- run resolves with v
RunResolves(v) ==
  /\ rpc = "run"
  /\ runCalls' = runCalls + 1
  /\ retryLog' = Append(retryLog, "run")
  /\ runValue' = v
  /\ resolved' = Returned(v)
  /\ rpc' = "resolved"
  /\ UNCHANGED <<retryCount, onRetryCalls, onEscalationCalls, thrown,
                 retryArgs, escInfos, rejected>>
  /\ UNCHANGED <<storeVars, opsVars, decideVars, authVars, teleVars, wtVars, traceVars, callVars, scoreVars, sessVars>>

\* throw err (retry-policy.ts:104): what the catch block rethrows.
Rethrown(err) == err

\* Faulty variant of the retry branch: the counter is not incremented.
NextRetryCountStuck(n) == n

\* retryCount++ (retry-policy.ts:91)
NextRetryCount(n) == n + 1

\* catch (err) { ... }  -- run throws; the catch block runs up to the await
\* of the callback it fires (verdict is the code's `decision`).
RunThrows(shape) ==
  /\ rpc = "run"
  /\ LET err == MkError("run", runCalls + 1, shape)
         ctx == [retryCount |-> retryCount]
         verdict == shouldRetry(err, ctx)
     IN /\ runCalls' = runCalls + 1
        /\ thrown' = Append(thrown, err)
        /\ IF verdict.shouldRetry
             THEN /\ retryCount' = NextRetryCount(retryCount)
                  /\ onRetryCalls' = onRetryCalls + 1
                  /\ retryArgs' = Append(retryArgs, <<verdict, NextRetryCount(retryCount)>>)
                  /\ retryLog' = retryLog \o <<"run", "onRetry">>
                  /\ rpc' = "onRetry"
                  /\ UNCHANGED <<onEscalationCalls, escInfos>>
             ELSE /\ onEscalationCalls' = onEscalationCalls + 1
                  /\ escInfos' = Append(escInfos, escalate(err, ctx))
                  /\ retryLog' = retryLog \o <<"run", "onEscalation">>
                  /\ rpc' = "onEscalation"
                  /\ UNCHANGED <<retryCount, onRetryCalls, retryArgs>>
  /\ UNCHANGED <<runValue, resolved, rejected>>
  /\ UNCHANGED <<storeVars, opsVars, decideVars, authVars, teleVars, wtVars, traceVars, callVars, scoreVars, sessVars>>

\* continue (retry-policy.ts:93)
AfterOnRetry == "run"

\* Faulty variant of the escalation branch: `throw err` is missing, so the loop
\* makes another attempt.
AfterOnEscalationLoops == "run"

\* throw err (retry-policy.ts:104)
AfterOnEscalation == "rejected"

\* await params.onRetry?.(decision, retryCount) returns: continue
OnRetryReturns ==
  /\ rpc = "onRetry"
  /\ rpc' = AfterOnRetry
  /\ rejected' = IF AfterOnRetry = "rejected" THEN Rethrown(thrown[Len(thrown)]) ELSE rejected
  /\ UNCHANGED <<retryCount, runCalls, onRetryCalls, onEscalationCalls,
                 retryLog, thrown, retryArgs, escInfos, runValue, resolved>>
  /\ UNCHANGED <<storeVars, opsVars, decideVars, authVars, teleVars, wtVars, traceVars, callVars, scoreVars, sessVars>>

\* await params.onRetry?.(...) throws inside the catch block: the exception
\* leaves executeWithRetry.
OnRetryThrows ==
  /\ rpc = "onRetry"
  /\ rejected' = CallbackError("onRetry", onRetryCalls)
  /\ rpc' = "rejected"
  /\ UNCHANGED <<retryCount, runCalls, onRetryCalls, onEscalationCalls,
                 retryLog, thrown, retryArgs, escInfos, runValue, resolved>>
  /\ UNCHANGED <<storeVars, opsVars, decideVars, authVars, teleVars, wtVars, traceVars, callVars, scoreVars, sessVars>>

\* await params.onEscalation?.(info) returns: throw err
OnEscalationReturns ==
  /\ rpc = "onEscalation"
  /\ rpc' = AfterOnEscalation
  /\ rejected' = IF AfterOnEscalation = "rejected" THEN Rethrown(thrown[Len(thrown)]) ELSE rejected
  /\ UNCHANGED <<retryCount, runCalls, onRetryCalls, onEscalationCalls,
                 retryLog, thrown, retryArgs, escInfos, runValue, resolved>>
  /\ UNCHANGED <<storeVars, opsVars, decideVars, authVars, teleVars, wtVars, traceVars, callVars, scoreVars, sessVars>>

\* await params.onEscalation?.(info) throws: that exception leaves instead.
OnEscalationThrows ==
  /\ rpc = "onEscalation"
  /\ rejected' = CallbackError("onEscalation", onEscalationCalls)
  /\ rpc' = "rejected"
  /\ UNCHANGED <<retryCount, runCalls, onRetryCalls, onEscalationCalls,
                 retryLog, thrown, retryArgs, escInfos, runValue, resolved>>
  /\ UNCHANGED <<storeVars, opsVars, decideVars, authVars, teleVars, wtVars, traceVars, callVars, scoreVars, sessVars>>

RetryNext ==
  \/ \E v \in Values : RunResolves(v)
  \/ \E shape \in ErrorShapes : RunThrows(shape)
  \/ OnRetryReturns
  \/ OnRetryThrows
  \/ OnEscalationReturns
  \/ OnEscalationThrows

(***************************************************************************)
(* Part I.  Properties of executeWithRetry.                                *)
(***************************************************************************)
Category(i) == categorizeError(thrown[i])

AllThrownTransient ==
  \A i \in 1..Len(thrown) : Category(i) \in {"rate_limit", "timeout", "server_error", "network"}

IsPrefix(s, t) == Len(s) <= Len(t) /\ \A i \in 1..Len(s) : s[i] = t[i]

TwoAttemptsThenEscalation == <<"run", "onRetry", "run", "onEscalation">>

CallbackThrew == rejected.origin \in {"onRetry", "onEscalation"}

Positions(name) == {i \in 1..Len(retryLog) : retryLog[i] = name}

\* C1: whenever every invocation of run throws a transient error, a call that
\* has finished has invoked run exactly twice, fired onRetry exactly once
\* between the two attempts, and only then escalated.
C1_TransientTwiceThenEscalates ==
  (rpc = "rejected" /\ AllThrownTransient)
    => retryLog = TwoAttemptsThenEscalation

\* What the code does guarantee there: while every invocation of run throws a
\* transient error, the invocations follow run, onRetry, run, onEscalation in
\* that order and never go beyond it; and a call that finished without
\* onRetry itself throwing has made exactly these four.
TransientRetriedOnceUnlessOnRetryThrows ==
  (rpc # "resolved" /\ AllThrownTransient)
    => /\ IsPrefix(retryLog, TwoAttemptsThenEscalation)
       /\ (rpc = "rejected" /\ rejected.origin # "onRetry")
            => /\ retryLog = TwoAttemptsThenEscalation
               /\ runCalls = 2
               /\ onRetryCalls = 1
               /\ onEscalationCalls = 1

\* C2: whatever run does on each attempt, one call invokes run at most twice
\* and fires onRetry at most once.
C2_AtMostTwoAttempts ==
  /\ runCalls <= 2
  /\ onRetryCalls <= 1
  /\ Cardinality(Positions("run")) = runCalls
  /\ Cardinality(Positions("onRetry")) = onRetryCalls

C2_Witness ==
  /\ rpc \in {"resolved", "rejected"}
  /\ runCalls = 2
  /\ onRetryCalls = 1

\* C3: when the first invocation of run throws an auth, invalid_request or
\* unknown error, run is invoked exactly once, onRetry is never fired and
\* onEscalation is fired once, with retryCount = 0.
C3_PermanentNotRetried ==
  (Len(thrown) >= 1 /\ Category(1) \in {"auth", "invalid_request", "unknown"})
    => /\ runCalls = 1
       /\ onRetryCalls = 0
       /\ onEscalationCalls = 1
       /\ Len(escInfos) = 1
       /\ escInfos[1].retryCount = 0
       /\ retryLog = <<"run", "onEscalation">>

C3_Witness ==
  /\ rpc = "rejected"
  /\ Len(thrown) = 1
  /\ Category(1) = "unknown"
  /\ escInfos[1].retryCount = 0

\* C4: a call that resolved never fired onEscalation; a call that rejected
\* fired it exactly once, and that firing came after every onRetry firing.
C4_EscalationExactlyOnFailure ==
  /\ rpc = "resolved" => onEscalationCalls = 0
  /\ rpc = "rejected"
       => /\ onEscalationCalls = 1
          /\ \A i \in Positions("onRetry") : \A j \in Positions("onEscalation") : i < j

\* What the code does guarantee there: a call that resolved never fired
\* onEscalation; a call that rejected for any reason other than onRetry
\* throwing fired onEscalation exactly once, after every onRetry firing.
EscalationOnFailureUnlessOnRetryThrows ==
  /\ rpc = "resolved" => (onEscalationCalls = 0 /\ Positions("onEscalation") = {})
  /\ (rpc = "rejected" /\ rejected.origin # "onRetry")
       => /\ onEscalationCalls = 1
          /\ Cardinality(Positions("onEscalation")) = 1
          /\ \A i \in Positions("onRetry") : \A j \in Positions("onEscalation") : i < j

\* C5: whenever a call rejects, the value it rejects with is the very error
\* object the last invocation of run threw.
C5_OriginalErrorSurfaced ==
  rpc = "rejected" => rejected = thrown[Len(thrown)]

\* What the code does guarantee there: when a call rejects and neither
\* callback threw, the value it rejects with is the very error object the
\* last invocation of run threw (same identity, same fields).
OriginalErrorSurfacedUnlessCallbackThrows ==
  (rpc = "rejected" /\ ~CallbackThrew)
    => /\ Len(thrown) >= 1
       /\ rejected = thrown[Len(thrown)]
       /\ rejected.origin = "run"
       /\ rejected.seq = runCalls

\* C6: once an invocation of run has resolved with v, the call has resolved
\* with v, onEscalation was never fired, and onRetry was fired once per failed
\* attempt before the success: 0 times on a first-attempt success, else once.
C6_SuccessReturnsValue ==
  runValue # NoValue
    => /\ rpc = "resolved"
       /\ resolved = runValue
       /\ onEscalationCalls = 0
       /\ onRetryCalls = Len(thrown)
       /\ onRetryCalls = runCalls - 1
       /\ runCalls \in {1, 2}

C6_Witness ==
  /\ rpc = "resolved"
  /\ resolved = "recovered"
  /\ runCalls = 2
  /\ onRetryCalls = 1
  /\ Category(1) = "timeout"

(***************************************************************************)
(* Part II.  Session auto-compaction guard.                                *)
(*                                                                         *)
(* A SessionEntry is a function from the names of the fields it has to     *)
(* their values, as the JSON object is: an optional field that was never   *)
(* written is not in its DOMAIN.  The store maps the session keys present  *)
(* in the file to their entries.  thresholdContextRatio is the rational    *)
(* thresholdNum / thresholdDen.  Timestamps are epoch milliseconds         *)
(* (Date.now()), hence positive; 0 is the code's "never" value.            *)
(***************************************************************************)
MaxNow == 3

MaxTokens == 3

MinInterval == 2

ContextWindow == 4

Procs == {"p1", "p2"}

NoProc == "none"

Keys == {"k1", "k2"}

Times == 1..MaxNow

TokenCounts == 0..MaxTokens

Configs ==
  [enabled : BOOLEAN, thresholdNum : {1}, thresholdDen : {2}, minIntervalMs : {0, MinInterval}]

CallParams(keys) ==
  [sessionKey : keys, sessionId : {"sid"}, cfg : Configs, totalTokens : TokenCounts,
   contextTokens : {ContextWindow}, now : Times]

NoCall ==
  [sessionKey |-> "none", sessionId |-> "none",
   cfg |-> [enabled |-> FALSE, thresholdNum |-> 1, thresholdDen |-> 2, minIntervalMs |-> 0],
   totalTokens |-> 0, contextTokens |-> 0, now |-> 0]

\* let decision = { shouldCompact: false, reason: "unset" }
UnsetDecision == [shouldCompact |-> FALSE, reason |-> "unset"]

NoReturn == [sessionKey |-> "none", totalTokens |-> 0, contextTokens |-> 0,
             decision |-> UnsetDecision]

EmptyStore == [k \in {} |-> k]

Max(a, b) == IF a >= b THEN a ELSE b

\* { ...a, ...b }
Merge(a, b) == [f \in DOMAIN a \cup DOMAIN b |-> IF f \in DOMAIN b THEN b[f] ELSE a[f]]

\* store[key] = entry
Put(st, key, entry) == [k \in DOMAIN st \cup {key} |-> IF k = key THEN entry ELSE st[k]]

\* entry.field ?? 0
FieldOrZero(entry, field) == IF field \in DOMAIN entry THEN entry[field] ELSE 0

\* totalTokens / contextTokens >= cfg.thresholdContextRatio, for contextTokens > 0
RatioAtLeast(totalTokens, contextTokens, cfg) ==
  totalTokens * cfg.thresholdDen >= cfg.thresholdNum * contextTokens

\* Faulty variant of decideSessionAutoCompact: the token-growth check runs before the
\* rate-limit check.
decideSessionAutoCompactGrowthFirst(params) ==
  IF ~params.cfg.enabled
    THEN [shouldCompact |-> FALSE, reason |-> "disabled"]
  ELSE IF ~(params.totalTokens > 0) \/ ~(params.contextTokens > 0)
    THEN [shouldCompact |-> FALSE, reason |-> "missing-token-metrics"]
  ELSE IF ~RatioAtLeast(params.totalTokens, params.contextTokens, params.cfg)
    THEN [shouldCompact |-> FALSE, reason |-> "below-threshold"]
  ELSE IF params.totalTokens <= params.lastAutoCompactAtTokens
    THEN [shouldCompact |-> FALSE, reason |-> "no-token-growth"]
  ELSE IF /\ params.lastAutoCompactAt > 0
          /\ params.now - params.lastAutoCompactAt < params.cfg.minIntervalMs
    THEN [shouldCompact |-> FALSE, reason |-> "rate-limited"]
  ELSE [shouldCompact |-> TRUE, reason |-> "threshold-hit"]

\* Faulty variant of decideSessionAutoCompact: the token-growth check is
\* strict, so an unchanged token count counts as growth.
decideSessionAutoCompactStrictGrowth(params) ==
  IF ~params.cfg.enabled
    THEN [shouldCompact |-> FALSE, reason |-> "disabled"]
  ELSE IF ~(params.totalTokens > 0) \/ ~(params.contextTokens > 0)
    THEN [shouldCompact |-> FALSE, reason |-> "missing-token-metrics"]
  ELSE IF ~RatioAtLeast(params.totalTokens, params.contextTokens, params.cfg)
    THEN [shouldCompact |-> FALSE, reason |-> "below-threshold"]
  ELSE IF /\ params.lastAutoCompactAt > 0
          /\ params.now - params.lastAutoCompactAt < params.cfg.minIntervalMs
    THEN [shouldCompact |-> FALSE, reason |-> "rate-limited"]
  ELSE IF params.totalTokens < params.lastAutoCompactAtTokens
    THEN [shouldCompact |-> FALSE, reason |-> "no-token-growth"]
  ELSE [shouldCompact |-> TRUE, reason |-> "threshold-hit"]

\* Faulty variant of decideSessionAutoCompact: there is no token-growth check.
decideSessionAutoCompactWithoutGrowthCheck(params) ==
  IF ~params.cfg.enabled
    THEN [shouldCompact |-> FALSE, reason |-> "disabled"]
  ELSE IF ~(params.totalTokens > 0) \/ ~(params.contextTokens > 0)
    THEN [shouldCompact |-> FALSE, reason |-> "missing-token-metrics"]
  ELSE IF ~RatioAtLeast(params.totalTokens, params.contextTokens, params.cfg)
    THEN [shouldCompact |-> FALSE, reason |-> "below-threshold"]
  ELSE IF /\ params.lastAutoCompactAt > 0
          /\ params.now - params.lastAutoCompactAt < params.cfg.minIntervalMs
    THEN [shouldCompact |-> FALSE, reason |-> "rate-limited"]
  ELSE [shouldCompact |-> TRUE, reason |-> "threshold-hit"]

decideSessionAutoCompact(params) ==
  IF ~params.cfg.enabled
    THEN [shouldCompact |-> FALSE, reason |-> "disabled"]
  ELSE IF ~(params.totalTokens > 0) \/ ~(params.contextTokens > 0)
    THEN [shouldCompact |-> FALSE, reason |-> "missing-token-metrics"]
  ELSE IF ~RatioAtLeast(params.totalTokens, params.contextTokens, params.cfg)
    THEN [shouldCompact |-> FALSE, reason |-> "below-threshold"]
  ELSE IF /\ params.lastAutoCompactAt > 0
          /\ params.now - params.lastAutoCompactAt < params.cfg.minIntervalMs
    THEN [shouldCompact |-> FALSE, reason |-> "rate-limited"]
  ELSE IF params.totalTokens <= params.lastAutoCompactAtTokens
    THEN [shouldCompact |-> FALSE, reason |-> "no-token-growth"]
  ELSE [shouldCompact |-> TRUE, reason |-> "threshold-hit"]

\* Faulty variant of getSessionAutoCompactState: the state does not come from the
\* stored entry (a process that starts with empty memory sees "never").
getSessionAutoCompactStateFromMemory(entry) == [lastAt |-> 0, lastAtTokens |-> 0]

getSessionAutoCompactState(entry) ==
  [lastAt |-> FieldOrZero(entry, "sessionAutoCompactLastAt"),
   lastAtTokens |-> FieldOrZero(entry, "sessionAutoCompactLastAtTokens")]

\* existing ?? { sessionId, updatedAt: now }
EntryOrNew(st, params) ==
  IF params.sessionKey \in DOMAIN st
    THEN st[params.sessionKey]
    ELSE [sessionId |-> params.sessionId, updatedAt |-> params.now]

\* Faulty variant of ReservedEntry: the decision is returned but nothing is recorded.
ReservedEntryNotRecorded(entry, params) == entry

\* { ...entry, sessionId, updatedAt: max, sessionAutoCompactLastAt: now,
\*   sessionAutoCompactLastAtTokens: totalTokens }
ReservedEntry(entry, params) ==
  Merge(entry,
        [sessionId |-> params.sessionId,
         updatedAt |-> Max(FieldOrZero(entry, "updatedAt"), params.now),
         sessionAutoCompactLastAt |-> params.now,
         sessionAutoCompactLastAtTokens |-> params.totalTokens])

\* Faulty variant of KeptStore: a non-decision still stamps the attempt on the entry.
KeptStoreStamped(st, params) ==
  Put(st, params.sessionKey,
      Merge(EntryOrNew(st, params), [sessionAutoCompactLastAt |-> params.now]))

\* if (!existing) store[sessionKey] = entry; return;
KeptStore(st, params) ==
  IF params.sessionKey \in DOMAIN st
    THEN st
    ELSE Put(st, params.sessionKey, EntryOrNew(st, params))

\* The decision the updater of decideAndRecordSessionAutoCompact computes on
\* the loaded store.
UpdaterDecision(st, params) ==
  decideSessionAutoCompact(
    [cfg |-> params.cfg, totalTokens |-> params.totalTokens,
     contextTokens |-> params.contextTokens, now |-> params.now,
     lastAutoCompactAt |-> getSessionAutoCompactState(EntryOrNew(st, params)).lastAt,
     lastAutoCompactAtTokens |-> getSessionAutoCompactState(EntryOrNew(st, params)).lastAtTokens])

\* The store object as the updater leaves it.
UpdaterStore(st, params) ==
  IF ~UpdaterDecision(st, params).shouldCompact
    THEN KeptStore(st, params)
    ELSE Put(st, params.sessionKey, ReservedEntry(EntryOrNew(st, params), params))

InFlight == {"waiting", "locked", "updated",
             "rec_waiting", "rec_updated", "warn_waiting", "warn_updated"}

\* A process calls decideAndRecordSessionAutoCompact and waits for the lock.
\* Its parameters are the caller's locals, which nothing reads before the
\* updater runs: they enter the state when the lock is taken.
CallDecideAndRecord(p) ==
  /\ spc[p] = "idle"
  /\ spc' = [spc EXCEPT ![p] = "waiting"]
  /\ concurrentWith' =
       [q \in Procs |->
          IF q = p THEN {r \in Procs \ {p} : spc[r] \in InFlight}
          ELSE IF spc[q] \in InFlight THEN concurrentWith[q] \cup {p}
          ELSE concurrentWith[q]]
  /\ UNCHANGED <<store, lockHolder, call, draft, decision, lastReturn, lastHit>>
  /\ UNCHANGED <<retryVars, opsVars, decideVars, authVars, teleVars, wtVars, traceVars, callVars, scoreVars, sessVars>>

\* updateSessionStore: take the file lock and load the store.
AcquireLock(p, params) ==
  /\ spc[p] = "waiting"
  /\ lockHolder = NoProc
  /\ lockHolder' = p
  /\ call' = [call EXCEPT ![p] = params]
  /\ draft' = [draft EXCEPT ![p] = store]
  /\ spc' = [spc EXCEPT ![p] = "locked"]
  /\ UNCHANGED <<store, decision, lastReturn, concurrentWith, lastHit>>
  /\ UNCHANGED <<retryVars, opsVars, decideVars, authVars, teleVars, wtVars, traceVars, callVars, scoreVars, sessVars>>

\* The updater passed to updateSessionStore runs on the loaded store.
RunUpdater(p) ==
  /\ spc[p] = "locked"
  /\ decision' = [decision EXCEPT ![p] = UpdaterDecision(draft[p], call[p])]
  /\ draft' = [draft EXCEPT ![p] = UpdaterStore(draft[p], call[p])]
  /\ spc' = [spc EXCEPT ![p] = "updated"]
  /\ UNCHANGED <<store, lockHolder, call, lastReturn, concurrentWith, lastHit>>
  /\ UNCHANGED <<retryVars, opsVars, decideVars, authVars, teleVars, wtVars, traceVars, callVars, scoreVars, sessVars>>

\* updateSessionStore: write the store back, release the lock; the call
\* returns its decision.
SaveAndReturn(p) ==
  /\ spc[p] = "updated"
  /\ lockHolder = p
  /\ store' = draft[p]
  /\ lockHolder' = NoProc
  /\ lastReturn' = [lastReturn EXCEPT ![p] =
                      [sessionKey |-> call[p].sessionKey,
                       totalTokens |-> call[p].totalTokens,
                       contextTokens |-> call[p].contextTokens,
                       decision |-> decision[p]]]
  /\ lastHit' = IF decision[p].shouldCompact
                  THEN Put(lastHit, call[p].sessionKey,
                           [at |-> call[p].now, tokens |-> call[p].totalTokens, by |-> p])
                  ELSE lastHit
  /\ call' = [call EXCEPT ![p] = NoCall]
  /\ draft' = [draft EXCEPT ![p] = EmptyStore]
  /\ decision' = [decision EXCEPT ![p] = UnsetDecision]
  /\ spc' = [spc EXCEPT ![p] = "returned"]
  /\ written' = written \cup ({call[p].sessionKey} \cap DOMAIN draft[p])
  /\ UNCHANGED <<concurrentWith, warned, warnLog>>
  /\ UNCHANGED <<retryVars, decideVars, authVars, teleVars, wtVars, traceVars, callVars, scoreVars, sessVars>>

\* The caller is done with the returned decision.
Finish(p) ==
  /\ spc[p] = "returned"
  /\ spc' = [spc EXCEPT ![p] = "idle"]
  /\ lastReturn' = [lastReturn EXCEPT ![p] = NoReturn]
  /\ concurrentWith' = [q \in Procs |-> IF q = p THEN {} ELSE concurrentWith[q] \ {p}]
  /\ UNCHANGED <<store, lockHolder, call, draft, decision, lastHit>>
  /\ UNCHANGED <<retryVars, opsVars, decideVars, authVars, teleVars, wtVars, traceVars, callVars, scoreVars, sessVars>>

StoreNext(procs, keys) ==
  \E p \in procs :
    \/ CallDecideAndRecord(p)
    \/ \E params \in CallParams(keys) : AcquireLock(p, params)
    \/ RunUpdater(p)
    \/ SaveAndReturn(p)
    \/ Finish(p)

(***************************************************************************)
(* The other writers of the session store.                                 *)
(*                                                                         *)
(* recordSessionAutoCompactState goes through updateSessionStore like      *)
(* decideAndRecordSessionAutoCompact; maybeWarnSessionTokenPressure goes   *)
(* through updateSessionStoreEntry, which hands the existing entry to the  *)
(* callback and merges the patch it returns.  As for the guard, the        *)
(* parameters of a call (its `now` included) enter the state when the lock *)
(* is taken: nothing reads them before.                                    *)
(***************************************************************************)
RecordParams(keys) ==
  [sessionKey : keys, sessionId : {"sid"}, now : Times, totalTokens : TokenCounts]

\* Faulty variant of RecordedStore: the updater returns a store holding only
\* its own entry.
RecordedStoreAlone(st, params) ==
  Put(EmptyStore, params.sessionKey, ReservedEntry(EntryOrNew(st, params), params))

\* The updater of recordSessionAutoCompactState: the same object literal as
\* the reserved entry of decideAndRecordSessionAutoCompact.
RecordedStore(st, params) ==
  Put(st, params.sessionKey, ReservedEntry(EntryOrNew(st, params), params))

CallRecord(p) ==
  /\ spc[p] = "idle"
  /\ spc' = [spc EXCEPT ![p] = "rec_waiting"]
  /\ concurrentWith' =
       [q \in Procs |->
          IF q = p THEN {r \in Procs \ {p} : spc[r] \in InFlight}
          ELSE IF spc[q] \in InFlight THEN concurrentWith[q] \cup {p}
          ELSE concurrentWith[q]]
  /\ UNCHANGED <<store, lockHolder, call, draft, decision, lastReturn, lastHit>>
  /\ UNCHANGED <<retryVars, opsVars, decideVars, authVars, teleVars, wtVars, traceVars, callVars, scoreVars, sessVars>>

\* updateSessionStore takes the lock and loads the store; the updater runs.
RecordUpdate(p, params) ==
  /\ spc[p] = "rec_waiting"
  /\ lockHolder = NoProc
  /\ lockHolder' = p
  /\ call' = [call EXCEPT ![p] = params]
  /\ draft' = [draft EXCEPT ![p] = RecordedStore(store, params)]
  /\ spc' = [spc EXCEPT ![p] = "rec_updated"]
  /\ UNCHANGED <<store, decision, lastReturn, concurrentWith, lastHit>>
  /\ UNCHANGED <<retryVars, opsVars, decideVars, authVars, teleVars, wtVars, traceVars, callVars, scoreVars, sessVars>>

\* updateSessionStore writes the store back and releases the lock; the call
\* returns.
RecordSave(p) ==
  /\ spc[p] = "rec_updated"
  /\ lockHolder = p
  /\ store' = draft[p]
  /\ lockHolder' = NoProc
  /\ written' = written \cup {call[p].sessionKey}
  /\ call' = [call EXCEPT ![p] = NoCall]
  /\ draft' = [draft EXCEPT ![p] = EmptyStore]
  /\ spc' = [spc EXCEPT ![p] = "rec_returned"]
  /\ UNCHANGED <<decision, lastReturn, concurrentWith, lastHit, warned, warnLog>>
  /\ UNCHANGED <<retryVars, decideVars, authVars, teleVars, wtVars, traceVars, callVars, scoreVars, sessVars>>

RecordFinish(p) ==
  /\ spc[p] = "rec_returned"
  /\ spc' = [spc EXCEPT ![p] = "idle"]
  /\ concurrentWith' = [q \in Procs |-> IF q = p THEN {} ELSE concurrentWith[q] \ {p}]
  /\ UNCHANGED <<store, lockHolder, call, draft, decision, lastReturn, lastHit>>
  /\ UNCHANGED <<retryVars, opsVars, decideVars, authVars, teleVars, wtVars, traceVars, callVars, scoreVars, sessVars>>

\* resolveSessionTokenWarningConfig: thresholdContextRatio is
\* thresholdNum / thresholdDen; with thresholdNum = ContextWindow the ratio is
\* out of reach and only the absolute threshold can hit.
WarnConfigs ==
  [enabled : BOOLEAN, thresholdTokens : {MaxTokens}, thresholdNum : {1, ContextWindow},
   thresholdDen : {2}, minIntervalMs : {0, MinInterval}]

WarnParams(keys) == [sessionKey : keys, cfg : WarnConfigs, now : Times]

\* The session's usage as the rest of the system persists it on the entry
\* (session-token-warning.test.ts seeds and bumps it the same way).
SetUsage(key, total) ==
  /\ lockHolder = NoProc
  /\ store' = Put(store, key,
                  Merge(IF key \in DOMAIN store THEN store[key]
                        ELSE [sessionId |-> "sid", updatedAt |-> 1],
                        [totalTokens |-> total, contextTokens |-> ContextWindow]))
  /\ UNCHANGED <<lockHolder, spc, call, draft, decision, lastReturn, concurrentWith, lastHit>>
  /\ UNCHANGED <<retryVars, opsVars, decideVars, authVars, teleVars, wtVars, traceVars, callVars, scoreVars, sessVars>>

\* Faulty variant of WarnDue: the interval since the last warning is not
\* looked at.
WarnDueIgnoringInterval(entry, cfg, now) ==
  /\ FieldOrZero(entry, "totalTokens") > 0
  /\ FieldOrZero(entry, "contextTokens") > 0
  /\ \/ FieldOrZero(entry, "totalTokens") >= cfg.thresholdTokens
     \/ RatioAtLeast(FieldOrZero(entry, "totalTokens"), FieldOrZero(entry, "contextTokens"), cfg)
  /\ ~(FieldOrZero(entry, "totalTokens") <= FieldOrZero(entry, "sessionTokenWarningLastAtTokens"))

\* The update callback of maybeWarnSessionTokenPressure returns a patch
\* (TRUE) or null (FALSE).
WarnDue(entry, cfg, now) ==
  /\ FieldOrZero(entry, "totalTokens") > 0
  /\ FieldOrZero(entry, "contextTokens") > 0
  /\ \/ FieldOrZero(entry, "totalTokens") >= cfg.thresholdTokens
     \/ RatioAtLeast(FieldOrZero(entry, "totalTokens"), FieldOrZero(entry, "contextTokens"), cfg)
  /\ ~(/\ FieldOrZero(entry, "sessionTokenWarningLastAt") > 0
       /\ now - FieldOrZero(entry, "sessionTokenWarningLastAt") < cfg.minIntervalMs)
  /\ ~(FieldOrZero(entry, "totalTokens") <= FieldOrZero(entry, "sessionTokenWarningLastAtTokens"))

\* return { sessionTokenWarningLastAt: now, sessionTokenWarningLastAtTokens:
\*          totalTokens, updatedAt: now }
WarnPatch(entry, now) ==
  [sessionTokenWarningLastAt |-> now,
   sessionTokenWarningLastAtTokens |-> FieldOrZero(entry, "totalTokens"),
   updatedAt |-> now]

\* updateSessionStoreEntry merges the patch into the existing entry; the
\* store keeps updatedAt from going back.
mergeSessionEntry(existing, patch) ==
  Merge(Merge(existing, patch),
        [updatedAt |-> Max(FieldOrZero(existing, "updatedAt"), patch.updatedAt)])

\* if (!warningCfg.enabled) return { warned: false }: the store is not touched.
CallWarn(p, enabled) ==
  /\ spc[p] = "idle"
  /\ spc' = [spc EXCEPT ![p] = IF enabled THEN "warn_waiting" ELSE "warn_returned"]
  /\ warned' = [warned EXCEPT ![p] = FALSE]
  /\ concurrentWith' =
       [q \in Procs |->
          IF q = p THEN {r \in Procs \ {p} : spc[r] \in InFlight}
          ELSE IF spc[q] \in InFlight THEN concurrentWith[q] \cup {p}
          ELSE concurrentWith[q]]
  /\ UNCHANGED <<store, lockHolder, call, draft, decision, lastReturn, lastHit>>
  /\ UNCHANGED <<warnLog, written>>
  /\ UNCHANGED <<retryVars, decideVars, authVars, teleVars, wtVars, traceVars, callVars, scoreVars, sessVars>>

\* updateSessionStoreEntry takes the lock, loads the store and, when the
\* session has an entry, runs the update callback on it.
WarnUpdate(p, params) ==
  /\ spc[p] = "warn_waiting"
  /\ params.cfg.enabled
  /\ lockHolder = NoProc
  /\ lockHolder' = p
  /\ call' = [call EXCEPT ![p] = params]
  /\ LET key == params.sessionKey
         due == key \in DOMAIN store /\ WarnDue(store[key], params.cfg, params.now)
     IN /\ warned' = [warned EXCEPT ![p] = due]
        /\ draft' = [draft EXCEPT ![p] =
                       IF due
                         THEN Put(store, key,
                                  mergeSessionEntry(store[key], WarnPatch(store[key], params.now)))
                         ELSE store]
  /\ spc' = [spc EXCEPT ![p] = "warn_updated"]
  /\ UNCHANGED <<store, decision, lastReturn, concurrentWith, lastHit>>
  /\ UNCHANGED <<warnLog, written>>
  /\ UNCHANGED <<retryVars, decideVars, authVars, teleVars, wtVars, traceVars, callVars, scoreVars, sessVars>>

\* updateSessionStoreEntry writes the store back and releases the lock;
\* maybeWarnSessionTokenPressure returns { warned }.
WarnSave(p) ==
  /\ spc[p] = "warn_updated"
  /\ lockHolder = p
  /\ store' = draft[p]
  /\ lockHolder' = NoProc
  /\ warnLog' = IF warned[p]
                  THEN [warnLog EXCEPT ![call[p].sessionKey] =
                          @ \cup {[at |-> call[p].now,
                                   tokens |-> store[call[p].sessionKey].totalTokens]}]
                  ELSE warnLog
  /\ call' = [call EXCEPT ![p] = NoCall]
  /\ draft' = [draft EXCEPT ![p] = EmptyStore]
  /\ spc' = [spc EXCEPT ![p] = "warn_returned"]
  /\ UNCHANGED <<decision, lastReturn, concurrentWith, lastHit, warned, written>>
  /\ UNCHANGED <<retryVars, decideVars, authVars, teleVars, wtVars, traceVars, callVars, scoreVars, sessVars>>

WarnFinish(p) ==
  /\ spc[p] = "warn_returned"
  /\ spc' = [spc EXCEPT ![p] = "idle"]
  /\ warned' = [warned EXCEPT ![p] = FALSE]
  /\ concurrentWith' = [q \in Procs |-> IF q = p THEN {} ELSE concurrentWith[q] \ {p}]
  /\ UNCHANGED <<store, lockHolder, call, draft, decision, lastReturn, lastHit>>
  /\ UNCHANGED <<warnLog, written>>
  /\ UNCHANGED <<retryVars, decideVars, authVars, teleVars, wtVars, traceVars, callVars, scoreVars, sessVars>>

RecordNext(p, keys) ==
  \/ CallRecord(p)
  \/ \E params \in RecordParams(keys) : RecordUpdate(p, params)
  \/ RecordSave(p)
  \/ RecordFinish(p)

WarnNext(p, keys) ==
  \/ \E enabled \in BOOLEAN : CallWarn(p, enabled)
  \/ \E params \in WarnParams(keys) : WarnUpdate(p, params)
  \/ WarnSave(p)
  \/ WarnFinish(p)

UsageNext(keys) == \E key \in keys : \E total \in TokenCounts : SetUsage(key, total)

(***************************************************************************)
(* decideSessionAutoCompact on its own: the parameters are drawn, then the *)
(* function is applied to them.                                            *)
(***************************************************************************)
NoDecision == [shouldCompact |-> FALSE, reason |-> "none"]

DecideInputs ==
  [cfg : Configs, totalTokens : -1..MaxTokens, contextTokens : {-1, 0, ContextWindow},
   now : Times, lastAutoCompactAt : 0..MaxNow, lastAutoCompactAtTokens : TokenCounts]

Decide ==
  /\ dout = NoDecision
  /\ dout' = decideSessionAutoCompact(din)
  /\ UNCHANGED <<din, dout2>>
  /\ UNCHANGED <<retryVars, storeVars, opsVars, authVars, teleVars, wtVars, traceVars, callVars, scoreVars, sessVars>>

\* The same caller invokes decideSessionAutoCompact a second time; only
\* lastAutoCompactAtTokens differs: it is now totalTokens.
SecondInputs(i) == [i EXCEPT !.lastAutoCompactAtTokens = i.totalTokens]

DecideAgain ==
  /\ dout # NoDecision
  /\ dout2 = NoDecision
  /\ dout2' = decideSessionAutoCompact(SecondInputs(din))
  /\ UNCHANGED <<din, dout>>
  /\ UNCHANGED <<retryVars, storeVars, opsVars, authVars, teleVars, wtVars, traceVars, callVars, scoreVars, sessVars>>

DecideNext == Decide \/ DecideAgain

(***************************************************************************)
(* Part III.  Auth-profile store and env autosync.                         *)
(*                                                                         *)
(* A credential is a record as in auth-profiles.json: { type: "api_key",   *)
(* provider, key } or { type: "token", provider, token }.  The model keeps *)
(* two of the known providers, one with an OAuth-token / API-key pair and  *)
(* one map-driven, in the order of the source list.  An environment value  *)
(* is "" (unset), blank, or a key with or without surrounding blanks.      *)
(***************************************************************************)
KNOWN_ENV_PROVIDERS == <<"anthropic", "openai">>

EnvVars == {"ANTHROPIC_OAUTH_TOKEN", "ANTHROPIC_API_KEY", "OPENAI_API_KEY"}

EnvValues == {"", " ", "k1", " k2 "}

\* String.prototype.trim on the modelled values
Trim(v) == IF v = " " THEN "" ELSE IF v = " k2 " THEN "k2" ELSE v

NoProfiles == [id \in {} |-> id]

\* Profiles another writer may have put in the file: profiles of a known
\* provider (one with the provider spelled "OpenAI"), and a profile of another
\* provider stored under the id "openai:env".
SeedProfiles ==
  [id \in {"anthropic:default", "openai:default", "openai:env"} |->
     CASE id = "anthropic:default" -> [type |-> "token", provider |-> "anthropic", token |-> "seed"]
       [] id = "openai:default" -> [type |-> "api_key", provider |-> "OpenAI", key |-> "existing"]
       [] id = "openai:env" -> [type |-> "api_key", provider |-> "custom", key |-> "other"]]

\* model-selection.ts (not in src/): trims and lower-cases the provider id
normalizeProviderId(provider) == IF provider = "OpenAI" THEN "openai" ELSE provider

\* profiles.ts (not in src/): ids of the profiles whose provider normalizes
\* to `provider`
listProfilesForProvider(profiles, provider) ==
  {id \in DOMAIN profiles : normalizeProviderId(profiles[id].provider) = provider}

NoCredential == [provider |-> "none", envVar |-> "none", value |-> "", mode |-> "none"]

\* const pick = (envVar, mode) => ...
pick(environment, normalized, envVar, mode) ==
  IF Trim(environment[envVar]) = ""
    THEN NoCredential
    ELSE [provider |-> normalized, envVar |-> envVar,
          value |-> Trim(environment[envVar]), mode |-> mode]

\* a ?? b
Coalesce(a, b) == IF a # NoCredential THEN a ELSE b

resolveEnvVarCredentialForProvider(provider, environment) ==
  LET normalized == normalizeProviderId(provider) IN
  IF normalized = "anthropic"
    THEN Coalesce(pick(environment, normalized, "ANTHROPIC_OAUTH_TOKEN", "token"),
                  pick(environment, normalized, "ANTHROPIC_API_KEY", "api-key"))
  ELSE IF normalized = "google-vertex" THEN NoCredential
  ELSE IF normalized = "openai"
    THEN pick(environment, normalized, "OPENAI_API_KEY", "api-key")
  ELSE NoCredential

toCredential(params) ==
  IF params.mode = "token"
    THEN [type |-> "token", provider |-> params.provider, token |-> params.value]
    ELSE [type |-> "api_key", provider |-> params.provider, key |-> params.value]

\* `${provider}:env`
EnvProfileId(provider) == provider \o ":env"

\* Faulty variant of EvaluateProvider: the env profile is written whenever a
\* credential resolves, whatever the store holds.
EvaluateProviderOverwriting(acc, providerRaw, environment) ==
  LET provider == normalizeProviderId(providerRaw)
      found == resolveEnvVarCredentialForProvider(provider, environment)
  IN IF found = NoCredential THEN acc
     ELSE [profiles |-> Put(acc.profiles, EnvProfileId(provider),
                            toCredential([provider |-> provider, mode |-> found.mode,
                                          value |-> found.value])),
           mutated |-> TRUE,
           added |-> Append(acc.added,
                            [provider |-> provider, profileId |-> EnvProfileId(provider),
                             envVar |-> found.envVar, mode |-> found.mode])]

\* One iteration of the updater's loop on the in-memory store:
\* acc = [profiles, mutated, added].
EvaluateProvider(acc, providerRaw, environment) ==
  LET provider == normalizeProviderId(providerRaw)
      found == resolveEnvVarCredentialForProvider(provider, environment)
  IN IF listProfilesForProvider(acc.profiles, provider) # {} THEN acc
     ELSE IF found = NoCredential THEN acc
     ELSE IF EnvProfileId(provider) \in DOMAIN acc.profiles THEN acc
     ELSE [profiles |-> Put(acc.profiles, EnvProfileId(provider),
                            toCredential([provider |-> provider, mode |-> found.mode,
                                          value |-> found.value])),
           mutated |-> TRUE,
           added |-> Append(acc.added,
                            [provider |-> provider, profileId |-> EnvProfileId(provider),
                             envVar |-> found.envVar, mode |-> found.mode])]

RECURSIVE UpdaterFrom(_, _, _, _)
\* for (const providerRaw of KNOWN_ENV_PROVIDERS) { ... } return mutated;
\* the evaluation of provider number failAt raises an exception (0: none does).
UpdaterFrom(i, acc, environment, failAt) ==
  IF i > Len(KNOWN_ENV_PROVIDERS)
    THEN [profiles |-> acc.profiles, mutated |-> acc.mutated, added |-> acc.added, threw |-> FALSE]
  ELSE IF i = failAt
    THEN [profiles |-> acc.profiles, mutated |-> acc.mutated, added |-> acc.added, threw |-> TRUE]
  ELSE UpdaterFrom(i + 1, EvaluateProvider(acc, KNOWN_ENV_PROVIDERS[i], environment),
                   environment, failAt)

\* Faulty variant of Updater: the exception of a provider is caught inside
\* the updater, which returns what it has so far.
UpdaterSwallowing(profiles, environment, failAt) ==
  [UpdaterFrom(1, [profiles |-> profiles, mutated |-> FALSE, added |-> <<>>],
               environment, failAt) EXCEPT !.threw = FALSE]

\* The updater passed to updateAuthProfileStoreWithLock, run on the loaded
\* store.
Updater(profiles, environment, failAt) ==
  UpdaterFrom(1, [profiles |-> profiles, mutated |-> FALSE, added |-> <<>>],
              environment, failAt)

\* updateAuthProfileStoreWithLock (store.ts, not in src/): under the lock,
\* load, run the updater, save when it returned true; an exception of the
\* updater aborts the update before the save.
PersistedProfiles(before, out) ==
  IF out.threw THEN before
  ELSE IF out.mutated THEN out.profiles
  ELSE before

\* Faulty variant of SyncReturn: mutated is Boolean(updated) alone.
SyncReturnIgnoringAdded(out) ==
  IF out.threw
    THEN [status |-> "rejected", mutated |-> FALSE, added |-> <<>>]
    ELSE [status |-> "resolved", mutated |-> TRUE, added |-> out.added]

NoSyncResult == [status |-> "none", mutated |-> FALSE, added |-> <<>>]

\* const mutated = Boolean(updated) && added.length > 0; return { mutated, added }
SyncReturn(out) ==
  IF out.threw
    THEN [status |-> "rejected", mutated |-> FALSE, added |-> <<>>]
    ELSE [status |-> "resolved", mutated |-> Len(out.added) > 0, added |-> out.added]

autosyncEnvCredentialsToAuthProfiles(failAt) ==
  LET out == Updater(authStore, env, failAt) IN
  /\ authStore' = PersistedProfiles(authStore, out)
  /\ memProfiles' = out.profiles
  /\ syncResult' = SyncReturn(out)
  /\ consecutive' = IF out.threw THEN 0 ELSE IF consecutive < 2 THEN consecutive + 1 ELSE 2
  /\ raisedAt' = failAt
  /\ UNCHANGED env
  /\ UNCHANGED <<retryVars, storeVars, opsVars, decideVars, teleVars, wtVars, traceVars, callVars, scoreVars, sessVars>>

\* process.env[key] = next
SetEnv(var, value) ==
  /\ env[var] # value
  /\ env' = [env EXCEPT ![var] = value]
  /\ consecutive' = 0
  /\ raisedAt' = 0
  /\ UNCHANGED <<authStore, syncResult, memProfiles>>
  /\ UNCHANGED <<retryVars, storeVars, opsVars, decideVars, teleVars, wtVars, traceVars, callVars, scoreVars, sessVars>>

\* Another writer adds a profile to auth-profiles.json.
SeedProfile(id) ==
  /\ id \notin DOMAIN authStore
  /\ authStore' = Put(authStore, id, SeedProfiles[id])
  /\ consecutive' = 0
  /\ raisedAt' = 0
  /\ UNCHANGED <<env, syncResult, memProfiles>>
  /\ UNCHANGED <<retryVars, storeVars, opsVars, decideVars, teleVars, wtVars, traceVars, callVars, scoreVars, sessVars>>

AuthNext ==
  \/ \E failAt \in 0..Len(KNOWN_ENV_PROVIDERS) : autosyncEnvCredentialsToAuthProfiles(failAt)
  \/ \E var \in EnvVars : \E value \in EnvValues : SetEnv(var, value)
  \/ \E id \in DOMAIN SeedProfiles : SeedProfile(id)

(***************************************************************************)
(* Part IV.  Telemetry listeners and the scoreboard                        *)
(* (src/agents/observability/telemetry.ts, scoreboard.ts).                 *)
(*                                                                         *)
(* JavaScript runs emitTelemetry synchronously: a listener that emits      *)
(* while it is being invoked starts a nested activation, which runs to     *)
(* completion before the outer for-of loop resumes.  frames is that stack  *)
(* of activations; next is the array index the loop's iterator reads next. *)
(***************************************************************************)
MaxEvents == 3
MaxClosures == 2
MaxRepeat == 2

Events == 1..MaxEvents

\* Listener functions: two registered by callers, and the closures created
\* by Scoreboard.start (a new function object on every registration).
UserListener(name) == [fn |-> name, n |-> 0]

RecordClosure(k) == [fn |-> "record", n |-> k]

UserListeners == {UserListener("a"), UserListener("b")}

Listeners == UserListeners \cup {RecordClosure(k) : k \in 1..MaxClosures}

\* What a listener does when invoked.
Behaviours(l) ==
  IF l = UserListener("a") THEN {"return", "throw", "emit"}
  ELSE IF l = UserListener("b") THEN {"return", "throw"}
  ELSE {"record"}

Registered(l) == \E i \in 1..Len(listeners) : listeners[i] = l

\* const idx = listeners.indexOf(fn); if (idx >= 0) listeners.splice(idx, 1)
RemoveFirst(arr, l) ==
  IF \E i \in 1..Len(arr) : arr[i] = l
    THEN LET idx == CHOOSE i \in 1..Len(arr) :
                      arr[i] = l /\ \A j \in 1..(i - 1) : arr[j] # l
         IN  [i \in 1..(Len(arr) - 1) |-> IF i < idx THEN arr[i] ELSE arr[i + 1]]
    ELSE arr

NoScoreboardCall == [op |-> "none", times |-> 0]

Repeated(op) ==
  IF sbLast.op = op
    THEN [op |-> op, times |-> IF sbLast.times < MaxRepeat THEN sbLast.times + 1 ELSE MaxRepeat]
    ELSE [op |-> op, times |-> 1]

Top == frames[Len(frames)]

Advanced == [frames EXCEPT ![Len(frames)].next = @ + 1]

Pushed(stack, event) == Append(stack, [event |-> event, next |-> 1])

\* Faulty variant of ListenerThrew: no try/catch around the listener call.
ListenerThrewUncaught(stack) == [frames |-> <<>>, escaped |-> TRUE]

\* try { listener(enriched) } catch { /* swallow listener errors */ }
ListenerThrew(stack) == [frames |-> stack, escaped |-> FALSE]

\* onTelemetry(fn), called by a caller outside any dispatch.
onTelemetry(l) ==
  /\ frames = <<>>
  /\ ~Registered(l)
  /\ listeners' = Append(listeners, l)
  /\ UNCHANGED <<frames, emitted, seen, outcome, threwOn,
                 unsubscribe, closures, totalEvents, sbLast, sbAtEmit>>
  /\ UNCHANGED <<retryVars, storeVars, opsVars, decideVars, authVars, wtVars, traceVars, callVars, scoreVars, sessVars>>

\* The function returned by onTelemetry(fn), called outside any dispatch.
Unsubscribe(l) ==
  /\ frames = <<>>
  /\ listeners' = RemoveFirst(listeners, l)
  /\ UNCHANGED <<frames, emitted, seen, outcome, threwOn,
                 unsubscribe, closures, totalEvents, sbLast, sbAtEmit>>
  /\ UNCHANGED <<retryVars, storeVars, opsVars, decideVars, authVars, wtVars, traceVars, callVars, scoreVars, sessVars>>

\* emitTelemetry(event), called by a caller outside any dispatch.
emitTelemetry ==
  /\ frames = <<>>
  /\ emitted < MaxEvents
  /\ emitted' = emitted + 1
  /\ frames' = Pushed(frames, emitted + 1)
  /\ outcome' = [outcome EXCEPT ![emitted + 1] = "dispatching"]
  /\ sbAtEmit' = [sbAtEmit EXCEPT ![emitted + 1] = sbLast]
  /\ UNCHANGED <<listeners, seen, threwOn, unsubscribe, closures, totalEvents, sbLast>>
  /\ UNCHANGED <<retryVars, storeVars, opsVars, decideVars, authVars, wtVars, traceVars, callVars, scoreVars, sessVars>>

\* The for-of loop reads the next listener and calls it with the event.
Invoked(behaviour) ==
  /\ frames # <<>>
  /\ Top.next <= Len(listeners)
  /\ behaviour \in Behaviours(listeners[Top.next])
  /\ seen' = [seen EXCEPT ![listeners[Top.next]] = Append(@, Top.event)]

ListenerReturns ==
  /\ Invoked("return")
  /\ frames' = Advanced
  /\ UNCHANGED <<listeners, emitted, outcome, threwOn,
                 unsubscribe, closures, totalEvents, sbLast, sbAtEmit>>
  /\ UNCHANGED <<retryVars, storeVars, opsVars, decideVars, authVars, wtVars, traceVars, callVars, scoreVars, sessVars>>

ListenerThrows ==
  /\ Invoked("throw")
  /\ frames' = ListenerThrew(Advanced).frames
  /\ threwOn' = [threwOn EXCEPT ![Top.event] = @ \cup {listeners[Top.next]}]
  /\ outcome' = IF ListenerThrew(Advanced).escaped
                  THEN [e \in Events |->
                          IF outcome[e] = "dispatching" THEN "threw" ELSE outcome[e]]
                  ELSE outcome
  /\ UNCHANGED <<listeners, emitted, unsubscribe, closures, totalEvents, sbLast, sbAtEmit>>
  /\ UNCHANGED <<retryVars, storeVars, opsVars, decideVars, authVars, wtVars, traceVars, callVars, scoreVars, sessVars>>

\* A listener that calls emitTelemetry while it is being invoked.
ListenerEmits ==
  /\ Invoked("emit")
  /\ emitted < MaxEvents
  /\ emitted' = emitted + 1
  /\ frames' = Pushed(Advanced, emitted + 1)
  /\ outcome' = [outcome EXCEPT ![emitted + 1] = "dispatching"]
  /\ sbAtEmit' = [sbAtEmit EXCEPT ![emitted + 1] = sbLast]
  /\ UNCHANGED <<listeners, threwOn, unsubscribe, closures, totalEvents, sbLast>>
  /\ UNCHANGED <<retryVars, storeVars, opsVars, decideVars, authVars, wtVars, traceVars, callVars, scoreVars, sessVars>>

(***************************************************************************)
(* Scoreboard.record and Scoreboard.reset.  A telemetry event is a record  *)
(* whose optional properties are fields that may be absent.                *)
(***************************************************************************)
MaxRecords == 3

NoEntries == [k \in {} |-> k]

\* makeKey: `${provider}::${model}`
makeKey(provider, model) == provider \o "::" \o model

\* event.field ?? fallback
OrElse(event, field, fallback) == IF field \in DOMAIN event THEN event[field] ELSE fallback

\* event.tokens?.field ?? 0
TokensOrZero(event, field) ==
  IF "tokens" \in DOMAIN event THEN OrElse(event.tokens, field, 0) ELSE 0

\* The entry record() creates when the key has none.
FreshEntry(event, at) ==
  [provider |-> OrElse(event, "provider", "unknown"),
   model |-> OrElse(event, "model", "unknown"),
   successCount |-> 0, failCount |-> 0, totalLatencyMs |-> 0,
   totalTokensIn |-> 0, totalTokensOut |-> 0, lastEventAt |-> at]

\* if (event.success) entry.successCount++; else entry.failCount++;
Counted(entry, event) ==
  [entry EXCEPT !.successCount = IF event.success THEN @ + 1 ELSE @,
                !.failCount = IF event.success THEN @ ELSE @ + 1]

\* this.entries after record(event), Date.now() reading `at`.
Recorded(ents, event, at) ==
  LET key == makeKey(OrElse(event, "provider", "unknown"), OrElse(event, "model", "unknown"))
      entry == IF key \in DOMAIN ents THEN ents[key] ELSE FreshEntry(event, at)
  IN  [k \in DOMAIN ents \cup {key} |->
         IF k = key
           THEN [Counted(entry, event) EXCEPT
                   !.totalLatencyMs = @ + OrElse(event, "latencyMs", 0),
                   !.totalTokensIn = @ + TokensOrZero(event, "input"),
                   !.totalTokensOut = @ + TokensOrZero(event, "output"),
                   !.lastEventAt = at]
           ELSE ents[k]]

\* The events emitTelemetry dispatches in the model carry no provider, model,
\* latency or tokens; odd-numbered ones succeeded.
EnrichedEvent(e) == [type |-> "custom", success |-> e % 2 = 1]

\* (event) => this.record(event)
ListenerRecords ==
  /\ Invoked("record")
  /\ frames' = Advanced
  /\ entries' = Recorded(entries, EnrichedEvent(Top.event), sbClock + 1)
  /\ sbClock' = sbClock + 1
  /\ sinceReset' = Append(sinceReset, EnrichedEvent(Top.event))
  /\ totalEvents' = totalEvents + 1
  /\ UNCHANGED <<listeners, emitted, outcome, threwOn,
                 unsubscribe, closures, sbLast, sbAtEmit, uptimeSince>>
  /\ UNCHANGED <<retryVars, storeVars, opsVars, decideVars, authVars, wtVars, traceVars, callVars, sessVars>>

\* The events record() is called with directly.
ScoreEvents ==
  { [type |-> "llm_call", success |-> ok] @@ p @@ m @@ n :
      ok \in BOOLEAN,
      p \in {<<>>, [provider |-> "openai"]},
      m \in {<<>>, [model |-> "gpt-4"]},
      n \in {<<>>, [latencyMs |-> 200, tokens |-> [input |-> 100, output |-> 50]]} }

\* board.record(event), called directly
record(event) ==
  /\ frames = <<>>
  /\ sbClock < MaxRecords
  /\ entries' = Recorded(entries, event, sbClock + 1)
  /\ sbClock' = sbClock + 1
  /\ sinceReset' = Append(sinceReset, event)
  /\ totalEvents' = totalEvents + 1
  /\ UNCHANGED <<listeners, frames, emitted, seen, outcome, threwOn,
                 unsubscribe, closures, sbLast, sbAtEmit, uptimeSince>>
  /\ UNCHANGED <<retryVars, storeVars, opsVars, decideVars, authVars, wtVars, traceVars, callVars, sessVars>>

\* Faulty variant of TotalAfterReset: the counter survives the reset.
TotalAfterResetKept(total) == total

\* this.totalEvents = 0
TotalAfterReset(total) == 0

\* board.reset()
reset ==
  /\ frames = <<>>
  /\ sbClock < MaxRecords
  /\ entries' = NoEntries
  /\ totalEvents' = TotalAfterReset(totalEvents)
  /\ uptimeSince' = sbClock + 1
  /\ sbClock' = sbClock + 1
  /\ sinceReset' = <<>>
  /\ UNCHANGED <<listeners, frames, emitted, seen, outcome, threwOn,
                 unsubscribe, closures, sbLast, sbAtEmit>>
  /\ UNCHANGED <<retryVars, storeVars, opsVars, decideVars, authVars, wtVars, traceVars, callVars, sessVars>>

ScoreEntriesNext ==
  \/ \E event \in ScoreEvents : record(event)
  \/ reset

\* The for-of loop ends and emitTelemetry returns to its caller.
EmitReturns ==
  /\ frames # <<>>
  /\ Top.next > Len(listeners)
  /\ frames' = SubSeq(frames, 1, Len(frames) - 1)
  /\ outcome' = [outcome EXCEPT ![Top.event] = "returned"]
  /\ UNCHANGED <<listeners, emitted, seen, threwOn,
                 unsubscribe, closures, totalEvents, sbLast, sbAtEmit>>
  /\ UNCHANGED <<retryVars, storeVars, opsVars, decideVars, authVars, wtVars, traceVars, callVars, scoreVars, sessVars>>

\* Faulty variant of AlreadyStarted: start() registers on every call.
AlreadyStartedNever(field) == FALSE

\* if (this.unsubscribe) return;
AlreadyStarted(field) == field # 0

\* Scoreboard.start()
start ==
  /\ frames = <<>>
  /\ sbLast' = Repeated("start")
  /\ IF AlreadyStarted(unsubscribe)
       THEN UNCHANGED <<listeners, unsubscribe, closures>>
       ELSE /\ closures < MaxClosures
            /\ closures' = closures + 1
            /\ listeners' = Append(listeners, RecordClosure(closures + 1))
            /\ unsubscribe' = closures + 1
  /\ UNCHANGED <<frames, emitted, seen, outcome, threwOn, totalEvents, sbAtEmit>>
  /\ UNCHANGED <<retryVars, storeVars, opsVars, decideVars, authVars, wtVars, traceVars, callVars, scoreVars, sessVars>>

\* Scoreboard.stop()
stop ==
  /\ frames = <<>>
  /\ sbLast' = Repeated("stop")
  /\ listeners' = IF unsubscribe # 0
                    THEN RemoveFirst(listeners, RecordClosure(unsubscribe))
                    ELSE listeners
  /\ unsubscribe' = 0
  /\ UNCHANGED <<frames, emitted, seen, outcome, threwOn, closures, totalEvents, sbAtEmit>>
  /\ UNCHANGED <<retryVars, storeVars, opsVars, decideVars, authVars, wtVars, traceVars, callVars, scoreVars, sessVars>>

DispatchNext ==
  \/ ListenerReturns
  \/ ListenerThrows
  \/ ListenerEmits
  \/ EmitReturns

TelemetryNext ==
  \/ \E l \in UserListeners : onTelemetry(l)
  \/ \E l \in UserListeners : Unsubscribe(l)
  \/ emitTelemetry
  \/ DispatchNext

ScoreboardNext ==
  \/ start
  \/ stop
  \/ onTelemetry(UserListener("a"))
  \/ emitTelemetry
  \/ ListenerRecords
  \/ DispatchNext

\* A listener that, while it is being invoked, calls the function returned
\* by onTelemetry(target): its own (target is the listener itself) or that
\* of another listener.  splice() shifts the later elements down by one
\* while the for-of iterator keeps its index.
ListenerUnsubscribes(target) ==
  /\ frames # <<>>
  /\ Top.next <= Len(listeners)
  /\ listeners[Top.next] \in UserListeners
  /\ seen' = [seen EXCEPT ![listeners[Top.next]] = Append(@, Top.event)]
  /\ listeners' = RemoveFirst(listeners, target)
  /\ frames' = Advanced
  /\ UNCHANGED <<emitted, outcome, threwOn,
                 unsubscribe, closures, totalEvents, sbLast, sbAtEmit>>
  /\ UNCHANGED <<retryVars, storeVars, opsVars, decideVars, authVars, wtVars, traceVars, callVars, scoreVars, sessVars>>

\* clearTelemetryListeners(): listeners.length = 0
clearTelemetryListeners ==
  /\ frames = <<>>
  /\ listeners' = <<>>
  /\ UNCHANGED <<frames, emitted, seen, outcome, threwOn,
                 unsubscribe, closures, totalEvents, sbLast, sbAtEmit>>
  /\ UNCHANGED <<retryVars, storeVars, opsVars, decideVars, authVars, wtVars, traceVars, callVars, scoreVars, sessVars>>

UnsubscribeNext ==
  \/ \E l \in UserListeners : onTelemetry(l)
  \/ emitTelemetry
  \/ \E target \in UserListeners : ListenerUnsubscribes(target)
  \/ DispatchNext

ClearNext ==
  \/ start
  \/ stop
  \/ clearTelemetryListeners
  \/ emitTelemetry
  \/ ListenerRecords
  \/ EmitReturns

(***************************************************************************)
(* Part V.  withTelemetry (src/agents/observability/telemetry.ts).         *)
(*                                                                         *)
(* fn is awaited, so other callers may run while it is pending; the        *)
(* emitTelemetry call and the return or rethrow that follows it run        *)
(* without suspension.                                                     *)
(***************************************************************************)
NoOutcome == [kind |-> "none"]

\* How fn settles: async () => 42, throw new Error("fail"), throw "oops".
FnOutcomes ==
  { [kind |-> "value", value |-> 42],
    [kind |-> "error", error |-> [isError |-> TRUE, message |-> "fail"]],
    [kind |-> "error", error |-> [isError |-> FALSE, str |-> "oops"]] }

\* What reaches the catch block if emitTelemetry itself throws.
EmitError == [kind |-> "error", error |-> [isError |-> TRUE, message |-> "emit"]]

NoFields == [type |-> "none"]

\* err instanceof Error ? err.message : String(err)
ErrorMessageOf(err) == IF err.isError THEN err.message ELSE err.str

\* Faulty variant of TelemetryFields: the catch block reports success.
TelemetryFieldsAlwaysOk(settled, latencyMs) ==
  [type |-> "llm_call", success |-> TRUE, latencyMs |-> latencyMs]

\* The object literals passed to emitTelemetry in the try and catch blocks.
TelemetryFields(settled, latencyMs) ==
  IF settled.kind = "value"
    THEN [type |-> "llm_call", success |-> TRUE, latencyMs |-> latencyMs]
    ELSE [type |-> "llm_call", success |-> FALSE, latencyMs |-> latencyMs,
          errorMessage |-> ErrorMessageOf(settled.error)]

\* emitTelemetry({...}) called from withTelemetry.
EmitFrom(settled, end) ==
  /\ emitted < MaxEvents
  /\ emitted' = emitted + 1
  /\ frames' = Pushed(frames, emitted + 1)
  /\ outcome' = [outcome EXCEPT ![emitted + 1] = "dispatching"]
  /\ sbAtEmit' = [sbAtEmit EXCEPT ![emitted + 1] = sbLast]
  /\ wEvents' = Append(wEvents, emitted + 1)
  /\ wtEvent' = [wtEvent EXCEPT ![emitted + 1] = TelemetryFields(settled, end - wStart)]

\* withTelemetry(opts, fn) up to `await fn()`.
withTelemetry(start0) ==
  /\ wpc \in {"idle", "resolved", "rejected"}
  /\ frames = <<>>
  /\ emitted < MaxEvents
  /\ wpc' = "running"
  /\ wStart' = start0
  /\ fnOutcome' = NoOutcome
  /\ wResult' = NoOutcome
  /\ wEvents' = <<>>
  /\ UNCHANGED wtEvent
  /\ UNCHANGED <<retryVars, storeVars, opsVars, decideVars, authVars, teleVars, traceVars, callVars, scoreVars, sessVars>>

\* fn settles and withTelemetry resumes: the try block emits the success
\* event, or the catch block emits the failure event.
FnSettles(settled, end) ==
  /\ wpc = "running"
  /\ frames = <<>>
  /\ fnOutcome' = settled
  /\ wpc' = IF settled.kind = "value" THEN "try" ELSE "catch"
  /\ EmitFrom(settled, end)
  /\ UNCHANGED <<wStart, wResult>>
  /\ UNCHANGED <<listeners, seen, threwOn, unsubscribe, closures, totalEvents, sbLast>>
  /\ UNCHANGED <<retryVars, storeVars, opsVars, decideVars, authVars, traceVars, callVars, scoreVars, sessVars>>

\* emitTelemetry is back: `return result` in the try block, `throw err` in
\* the catch block; an emitTelemetry that threw inside the try block lands in
\* the catch block, which emits again.
WithTelemetryEmitted(end) ==
  /\ wpc \in {"try", "catch"}
  /\ frames = <<>>
  /\ IF outcome[wEvents[Len(wEvents)]] = "threw" /\ wpc = "try"
       THEN /\ wpc' = "catch"
            /\ EmitFrom(EmitError, end)
            /\ UNCHANGED <<wStart, fnOutcome, wResult>>
       ELSE /\ wpc' = IF wpc = "try" THEN "resolved" ELSE "rejected"
            /\ wResult' = IF outcome[wEvents[Len(wEvents)]] = "threw"
                            THEN EmitError
                            ELSE IF fnOutcome.kind = "value" THEN fnOutcome
                            ELSE IF Len(wEvents) = 1 THEN fnOutcome ELSE EmitError
            /\ UNCHANGED <<wStart, fnOutcome, wEvents, wtEvent>>
            /\ UNCHANGED <<frames, emitted, outcome, sbAtEmit>>
  /\ UNCHANGED <<listeners, seen, threwOn, unsubscribe, closures, totalEvents, sbLast>>
  /\ UNCHANGED <<retryVars, storeVars, opsVars, decideVars, authVars, traceVars, callVars, scoreVars, sessVars>>

\* Another caller emits while fn is pending or between calls.
EmitByOtherCaller == wpc \notin {"try", "catch"} /\ emitTelemetry

\* Date.now() readings.
WtClock == {1, 2}

WithTelemetryNext ==
  \/ \E start0 \in WtClock : withTelemetry(start0)
  \/ \E settled \in FnOutcomes : \E end \in WtClock : FnSettles(settled, end)
  \/ \E end \in WtClock : WithTelemetryEmitted(end)
  \/ onTelemetry(UserListener("a"))
  \/ EmitByOtherCaller
  \/ ListenerReturns
  \/ ListenerThrows
  \/ EmitReturns

(***************************************************************************)
(* Part VI.  Trace context (trace-context.ts).                             *)
(*                                                                         *)
(* traceStorage is an AsyncLocalStorage: run(ctx, fn) makes ctx the store  *)
(* of the calling task while fn executes and puts the previous store back  *)
(* when fn returns or throws; a task created while a store is current      *)
(* starts with that store.  Tasks interleave freely.                       *)
(***************************************************************************)
Tasks == {"main", "child", "sibling"}

TraceContexts == {"outer", "inner"}

NoContext == "undefined"

MaxDepth == 2

\* Faulty variant of StoreOnRun: one store shared by all tasks.
StoreOnRunShared(stores, t, ctx) == [u \in Tasks |-> ctx]

\* traceStorage.run(ctx, fn): ctx becomes the calling task's store.
StoreOnRun(stores, t, ctx) == [stores EXCEPT ![t] = ctx]

\* traceStorage.getStore()
currentTraceContext(t) == taskStore[t]

\* withTraceContext(ctx, fn) is called in task t and fn starts.
withTraceContext(t, ctx) ==
  /\ createdIn[t] # "unborn"
  /\ Len(entered[t]) < MaxDepth
  /\ savedStores' = [savedStores EXCEPT ![t] = Append(@, taskStore[t])]
  /\ taskStore' = StoreOnRun(taskStore, t, ctx)
  /\ entered' = [entered EXCEPT ![t] = Append(@, ctx)]
  /\ UNCHANGED createdIn
  /\ UNCHANGED <<retryVars, storeVars, opsVars, decideVars, authVars, teleVars, wtVars, callVars, scoreVars, sessVars>>

\* run() puts the previous store back.
Exited(t) ==
  /\ entered[t] # <<>>
  /\ taskStore' = [taskStore EXCEPT ![t] = savedStores[t][Len(savedStores[t])]]
  /\ savedStores' = [savedStores EXCEPT ![t] = SubSeq(@, 1, Len(@) - 1)]
  /\ entered' = [entered EXCEPT ![t] = SubSeq(@, 1, Len(@) - 1)]
  /\ UNCHANGED createdIn

\* fn returns and withTraceContext returns its value.
TraceFnReturns(t) ==
  /\ Exited(t)
  /\ UNCHANGED <<retryVars, storeVars, opsVars, decideVars, authVars, teleVars, wtVars, callVars, scoreVars, sessVars>>

\* fn throws and the error leaves withTraceContext.
TraceFnThrows(t) ==
  /\ Exited(t)
  /\ UNCHANGED <<retryVars, storeVars, opsVars, decideVars, authVars, teleVars, wtVars, callVars, scoreVars, sessVars>>

\* The main task starts descendant asynchronous work.
SpawnChild ==
  /\ createdIn["child"] = "unborn"
  /\ createdIn' = [createdIn EXCEPT !["child"] = taskStore["main"]]
  /\ taskStore' = [taskStore EXCEPT !["child"] = taskStore["main"]]
  /\ UNCHANGED <<savedStores, entered>>
  /\ UNCHANGED <<retryVars, storeVars, opsVars, decideVars, authVars, teleVars, wtVars, callVars, scoreVars, sessVars>>

\* An unrelated task starts outside every frame.
SpawnSibling ==
  /\ createdIn["sibling"] = "unborn"
  /\ createdIn' = [createdIn EXCEPT !["sibling"] = NoContext]
  /\ UNCHANGED <<taskStore, savedStores, entered>>
  /\ UNCHANGED <<retryVars, storeVars, opsVars, decideVars, authVars, teleVars, wtVars, callVars, scoreVars, sessVars>>

\* A finished task is forgotten and may start again.
TaskEnds(t) ==
  /\ t # "main"
  /\ createdIn[t] # "unborn"
  /\ entered[t] = <<>>
  /\ createdIn' = [createdIn EXCEPT ![t] = "unborn"]
  /\ taskStore' = [taskStore EXCEPT ![t] = NoContext]
  /\ UNCHANGED <<savedStores, entered>>
  /\ UNCHANGED <<retryVars, storeVars, opsVars, decideVars, authVars, teleVars, wtVars, callVars, scoreVars, sessVars>>

TraceNext ==
  \/ \E t \in Tasks : \E ctx \in TraceContexts : withTraceContext(t, ctx)
  \/ \E t \in Tasks : TraceFnReturns(t)
  \/ \E t \in Tasks : TraceFnThrows(t)
  \/ SpawnChild
  \/ SpawnSibling
  \/ \E t \in Tasks : TaskEnds(t)

(***************************************************************************)
(* Part VII.  Pure operations, each applied once to drawn arguments.       *)
(***************************************************************************)
NoOperation == [op |-> "none"]

(***************************************************************************)
(* History pruning (src/agents/history-budget.ts).                         *)
(*                                                                         *)
(* A message is [role, content]; a string content is [kind |-> "string",   *)
(* text, length] (text names the string, length is its .length), an array  *)
(* content is [kind |-> "parts", parts], each part [type, length].         *)
(***************************************************************************)
CHARS_PER_TOKEN == 4

MaxHistory == 4

Roles == {"system", "user", "assistant"}

ContentLengths == {2, 7}

StringContent(text, length) == [kind |-> "string", text |-> text, length |-> length]

\* Math.ceil(n / d) for n >= 0, d > 0
CeilDiv(n, d) == (n + d - 1) \div d

RECURSIVE PartsCharCount(_)
\* message.content.reduce((sum, part) => ..., 0)
PartsCharCount(parts) ==
  IF parts = <<>> THEN 0
  ELSE (IF Head(parts).type = "text" THEN Head(parts).length ELSE 100)
       + PartsCharCount(Tail(parts))

\* Faulty variant of charCount: non-text parts add nothing.
charCountTextOnly(message) ==
  IF message.content.kind = "string"
    THEN message.content.length
    ELSE PartsCharCount(SelectSeq(message.content.parts, LAMBDA part : part.type = "text"))

charCount(message) ==
  IF message.content.kind = "string"
    THEN message.content.length
    ELSE PartsCharCount(message.content.parts)

estimateMessageTokens(message) == CeilDiv(charCount(message) + 10, CHARS_PER_TOKEN)

RECURSIVE estimateHistoryTokens(_)
estimateHistoryTokens(messages) ==
  IF messages = <<>> THEN 0
  ELSE estimateMessageTokens(Head(messages)) + estimateHistoryTokens(Tail(messages))

\* options?.minRecentTurns ?? 4
minRecentOf(options) ==
  IF "minRecentTurns" \in DOMAIN options THEN options.minRecentTurns ELSE 4

\* Indices of the non-system messages, ascending.
nonSystemMessages(messages) ==
  SelectSeq([i \in 1..Len(messages) |-> i], LAMBDA i : messages[i].role # "system")

RECURSIVE ScanRecent(_, _, _, _, _)
\* The loop from the end of nonSystemMessages: position i, user messages
\* counted so far.
ScanRecent(messages, nonSystem, minRecent, i, recentTurnCount) ==
  IF i = 0 THEN Len(nonSystem) + 1
  ELSE IF messages[nonSystem[i]].role = "user"
    THEN IF recentTurnCount + 1 >= minRecent
           THEN i
           ELSE ScanRecent(messages, nonSystem, minRecent, i - 1, recentTurnCount + 1)
    ELSE ScanRecent(messages, nonSystem, minRecent, i - 1, recentTurnCount)

\* Faulty variant of recentCutoff: one user message too few is protected.
recentCutoffShort(messages, minRecent) ==
  ScanRecent(messages, nonSystemMessages(messages), minRecent - 1,
             Len(nonSystemMessages(messages)), 0)

\* recentCutoff, as a position in nonSystemMessages (length + 1: none).
recentCutoff(messages, minRecent) ==
  ScanRecent(messages, nonSystemMessages(messages), minRecent,
             Len(nonSystemMessages(messages)), 0)

\* Faulty variant of protectedIndices: system messages are not protected.
protectedIndicesRecentOnly(messages, minRecent) ==
  { nonSystemMessages(messages)[i] :
      i \in recentCutoff(messages, minRecent)..Len(nonSystemMessages(messages)) }

protectedIndices(messages, minRecent) ==
  { i \in 1..Len(messages) : messages[i].role = "system" }
  \cup { nonSystemMessages(messages)[i] :
           i \in recentCutoff(messages, minRecent)..Len(nonSystemMessages(messages)) }

pruneIndices(messages, minRecent) ==
  SelectSeq([i \in 1..Len(messages) |-> i],
            LAMBDA i : i \notin protectedIndices(messages, minRecent))

\* Faulty variant of RemoveUntilWithinBudget: the budget test comes after
\* the removal.
RECURSIVE RemoveThenTest(_, _, _, _, _)
RemoveThenTest(messages, indices, budgetTokens, currentTokens, removedSet) ==
  IF indices = <<>> THEN removedSet
  ELSE IF currentTokens - estimateMessageTokens(messages[Head(indices)]) <= budgetTokens
    THEN removedSet \cup {Head(indices)} \cup
         (IF Tail(indices) = <<>> THEN {} ELSE {Head(Tail(indices))})
  ELSE RemoveThenTest(messages, Tail(indices), budgetTokens,
                      currentTokens - estimateMessageTokens(messages[Head(indices)]),
                      removedSet \cup {Head(indices)})

RECURSIVE RemoveUntilWithinBudget(_, _, _, _, _)
\* for (const idx of pruneIndices) { if (currentTokens <= budgetTokens) break; ... }
RemoveUntilWithinBudget(messages, indices, budgetTokens, currentTokens, removedSet) ==
  IF indices = <<>> THEN removedSet
  ELSE IF currentTokens <= budgetTokens THEN removedSet
  ELSE RemoveUntilWithinBudget(messages, Tail(indices), budgetTokens,
                               currentTokens - estimateMessageTokens(messages[Head(indices)]),
                               removedSet \cup {Head(indices)})

Without(messages, removedSet) ==
  LET kept == SelectSeq([i \in 1..Len(messages) |-> i], LAMBDA i : i \notin removedSet)
  IN  [k \in 1..Len(kept) |-> messages[kept[k]]]

pruneHistory(messages, budgetTokens, options) ==
  IF estimateHistoryTokens(messages) <= budgetTokens
    THEN [messages |-> messages, prunedCount |-> 0,
          tokensBefore |-> estimateHistoryTokens(messages),
          tokensAfter |-> estimateHistoryTokens(messages)]
    ELSE LET removedSet ==
               RemoveUntilWithinBudget(messages, pruneIndices(messages, minRecentOf(options)),
                                       budgetTokens, estimateHistoryTokens(messages), {})
         IN  [messages |-> Without(messages, removedSet),
              prunedCount |-> Cardinality(removedSet),
              tokensBefore |-> estimateHistoryTokens(messages),
              tokensAfter |-> estimateHistoryTokens(Without(messages, removedSet))]

\* Histories: every sequence of up to MaxHistory messages over the roles and
\* two content lengths, each message with a content string of its own.
RoleLengths == Roles \X ContentLengths

Shapes(n) == [1..n -> RoleLengths]

HistoryOf(shape) ==
  [i \in 1..Len(shape) |->
     [role |-> shape[i][1], content |-> StringContent(i, shape[i][2])]]

Histories == UNION { { HistoryOf(shape) : shape \in Shapes(n) } : n \in 0..MaxHistory }

Budgets == {0, 5, 9, 14, 100}

PruneOptions == { <<>> } \cup { [minRecentTurns |-> k] : k \in 0..2 }

pruneHistoryCall ==
  /\ lastCall = NoOperation
  /\ \E messages \in Histories : \E budgetTokens \in Budgets : \E options \in PruneOptions :
       lastCall' = [op |-> "pruneHistory", messages |-> messages,
                    budgetTokens |-> budgetTokens, options |-> options,
                    result |-> pruneHistory(messages, budgetTokens, options)]
  /\ UNCHANGED <<retryVars, storeVars, opsVars, decideVars, authVars, teleVars, wtVars, traceVars, scoreVars, sessVars>>

PruneNext == pruneHistoryCall

MaxContentLength == 6

\* Parts of an array content: text parts of a few lengths and a non-text part.
ContentParts ==
  { [type |-> "text", length |-> n] : n \in {0, 3, 5} } \cup { [type |-> "image"] }

PartsContent(parts) == [kind |-> "parts", parts |-> parts]

EstimatedMessages ==
  { [role |-> "user", content |-> StringContent("s", n)] : n \in 0..MaxContentLength }
  \cup { [role |-> "assistant", content |-> PartsContent(parts)] :
           parts \in UNION { [1..n -> ContentParts] : n \in 0..2 } }

\* estimateMessageTokens applied to two messages.
estimateMessageTokensCall ==
  /\ lastCall = NoOperation
  /\ \E m1 \in EstimatedMessages : \E m2 \in EstimatedMessages :
       lastCall' = [op |-> "estimateMessageTokens", m1 |-> m1, m2 |-> m2,
                    tokens1 |-> estimateMessageTokens(m1),
                    tokens2 |-> estimateMessageTokens(m2)]
  /\ UNCHANGED <<retryVars, storeVars, opsVars, decideVars, authVars, teleVars, wtVars, traceVars, scoreVars, sessVars>>

EstimateNext == estimateMessageTokensCall

(***************************************************************************)
(* Tool-result truncation (src/agents/tool-result-budget.ts).              *)
(*                                                                         *)
(* A string is the sequence of its characters, each a one-character        *)
(* string; "U+2026" stands for the single character HORIZONTAL ELLIPSIS.   *)
(***************************************************************************)
MaxContentChars == 64

Min(a, b) == IF a < b THEN a ELSE b

\* content.slice(from, to) for 0 <= from; an empty string when to <= from.
Slice(content, from, to) ==
  IF Min(to, Len(content)) <= from THEN <<>>
  ELSE SubSeq(content, from + 1, Min(to, Len(content)))

Digit(d) == <<"0", "1", "2", "3", "4", "5", "6", "7", "8", "9">>[d + 1]

RECURSIVE Decimal(_)
\* `${n}` for an integer n >= 0
Decimal(n) == IF n < 10 THEN <<Digit(n)>> ELSE Decimal(n \div 10) \o <<Digit(n % 10)>>

EntireContentMarker ==
  <<"[", "t", "r", "u", "n", "c", "a", "t", "e", "d", " ", "e", "n", "t",
    "i", "r", "e", " ", "c", "o", "n", "t", "e", "n", "t", "]">>

\* `\n[... truncated 00000 chars ...]\n`
markerTemplate ==
  <<"\n", "[", "U+2026", " ", "t", "r", "u", "n", "c", "a", "t", "e", "d",
    " ", "0", "0", "0", "0", "0", " ", "c", "h", "a", "r", "s", " ",
    "U+2026", "]", "\n">>

MarkerOpen ==
  <<"\n", "[", "U+2026", " ", "t", "r", "u", "n", "c", "a", "t", "e", "d",
    " ">>

MarkerClose ==
  <<" ", "c", "h", "a", "r", "s", " ", "U+2026", "]">>

markerOverhead == Len(markerTemplate) + 10

Whitespace == {" ", "\n"}

RECURSIVE trimStart(_)
trimStart(content) ==
  IF content # <<>> /\ Head(content) \in Whitespace THEN trimStart(Tail(content)) ELSE content

looksLikeJson(content) ==
  trimStart(content) # <<>> /\ Head(trimStart(content)) \in {"{", "["}

\* content[i] for a 0-based i ("" for undefined)
CharAt(content, i) == IF i >= 0 /\ i < Len(content) THEN content[i + 1] ELSE ""

RECURSIVE ScanHead(_, _, _, _)
\* for (let i = targetLen; i > targetLen - scanRange && i > 0; i--)
ScanHead(content, targetLen, scanRange, i) ==
  IF ~(i > targetLen - scanRange /\ i > 0) THEN targetLen
  ELSE IF CharAt(content, i) \in {"\n", ",", "}", "]"} THEN i + 1
  ELSE ScanHead(content, targetLen, scanRange, i - 1)

RECURSIVE ScanTail(_, _, _, _)
\* for (let i = startFrom; i < startFrom + scanRange && i < content.length; i++)
ScanTail(content, targetLen, scanRange, i) ==
  IF ~(i < (Len(content) - targetLen) + scanRange /\ i < Len(content)) THEN targetLen
  ELSE IF CharAt(content, i) \in {"\n", "{", "["} THEN Len(content) - i
  ELSE ScanTail(content, targetLen, scanRange, i + 1)

\* Math.min(200, Math.floor(targetLen * 0.15))
scanRangeOf(targetLen) == Min(200, (targetLen * 15) \div 100)

adjustToJsonBoundary(content, targetLen, direction) ==
  IF direction = "head"
    THEN ScanHead(content, targetLen, scanRangeOf(targetLen), targetLen)
    ELSE ScanTail(content, targetLen, scanRangeOf(targetLen), Len(content) - targetLen)

\* options?.headRatio ?? 0.6, as a fraction <<numerator, denominator>>
headRatioOf(options) == IF "headRatio" \in DOMAIN options THEN options.headRatio ELSE <<6, 10>>

\* options?.jsonAware !== false
jsonAwareOf(options) == IF "jsonAware" \in DOMAIN options THEN options.jsonAware ELSE TRUE

\* Faulty variant of PrefixWithMarker: the marker is left out when few
\* characters were cut.
PrefixWithoutSmallMarker(content, maxChars) ==
  Slice(content, 0, Max(maxChars, 0))
    \o (IF Len(content) - maxChars > 10
          THEN MarkerOpen \o Decimal(Len(content)) \o MarkerClose
          ELSE <<>>)

\* The return of the `available <= 0` branch.
PrefixWithMarker(content, maxChars) ==
  Slice(content, 0, Max(maxChars, 0))
    \o (IF Len(content) - maxChars > 0
          THEN MarkerOpen \o Decimal(Len(content)) \o MarkerClose
          ELSE <<>>)

\* Faulty variant of HeadMarkerTail: the tail starts where the head ends, so
\* nothing is cut.
HeadMarkerTailKeepingAll(content, headLen0, tailLen0) ==
  LET headLen == Min(headLen0, Len(content))
      truncatedCount == Len(content) - headLen - Min(tailLen0, Len(content) - headLen)
  IN  IF truncatedCount <= 0 THEN content
      ELSE Slice(content, 0, headLen)
             \o MarkerOpen \o Decimal(truncatedCount) \o MarkerClose \o <<"\n">>
             \o Slice(content, headLen, Len(content))

\* The part of truncateToolResult after headLen and tailLen are chosen.
HeadMarkerTail(content, headLen0, tailLen0) ==
  LET headLen == Min(headLen0, Len(content))
      tailLen == Min(tailLen0, Len(content) - headLen)
      truncatedCount == Len(content) - headLen - tailLen
  IN  IF truncatedCount <= 0 THEN content
      ELSE Slice(content, 0, headLen)
             \o MarkerOpen \o Decimal(truncatedCount) \o MarkerClose \o <<"\n">>
             \o Slice(content, Len(content) - tailLen, Len(content))

truncateToolResult(content, maxChars, options) ==
  IF Len(content) <= maxChars THEN content
  ELSE IF maxChars <= 0 THEN EntireContentMarker
  ELSE IF maxChars - markerOverhead <= 0 THEN PrefixWithMarker(content, maxChars)
  ELSE LET available == maxChars - markerOverhead
           headLen == (available * headRatioOf(options)[1]) \div headRatioOf(options)[2]
           tailLen == available - headLen
       IN  IF jsonAwareOf(options) /\ looksLikeJson(content)
             THEN HeadMarkerTail(content,
                                 adjustToJsonBoundary(content, headLen, "head"),
                                 adjustToJsonBoundary(content, tailLen, "tail"))
             ELSE HeadMarkerTail(content, headLen, tailLen)

\* Contents: runs of "x", and JSON-looking texts with a separator at every
\* third or a bracket at every fourth place, bare or after a leading space.
ContentStyles == {"plain", "commas", "brackets", "indented"}

ContentOf(style, n) ==
  [i \in 1..n |->
     CASE style = "plain" -> "x"
       [] style = "commas" -> IF i = 1 THEN "{" ELSE IF i % 3 = 0 THEN "," ELSE "x"
       [] style = "brackets" -> IF i = 1 THEN "[" ELSE IF i % 4 = 0 THEN "{" ELSE "x"
       [] style = "indented" ->
            IF i = 1 THEN " " ELSE IF i = 2 THEN "{" ELSE IF i % 2 = 0 THEN "\n" ELSE "x"]

TruncateOptions == { <<>>, [jsonAware |-> FALSE], [headRatio |-> <<1, 2>>] }

truncateToolResultCall ==
  /\ lastCall = NoOperation
  /\ \E style \in ContentStyles : \E n \in 0..MaxContentChars :
     \E maxChars \in -1..MaxContentChars : \E options \in TruncateOptions :
       lastCall' = [op |-> "truncateToolResult", content |-> ContentOf(style, n),
                    maxChars |-> maxChars, options |-> options,
                    result |-> truncateToolResult(ContentOf(style, n), maxChars, options)]
  /\ UNCHANGED <<retryVars, storeVars, opsVars, decideVars, authVars, teleVars, wtVars, traceVars, scoreVars, sessVars>>

RECURSIVE totalOriginalOf(_)
\* results.reduce((sum, r) => sum + r.content.length, 0)
totalOriginalOf(results) ==
  IF results = <<>> THEN 0
  ELSE Len(Head(results).content) + totalOriginalOf(Tail(results))

\* Math.floor(totalBudgetChars * proportion), proportion being the double
\* nearest to length / totalOriginal: the exact quotient, except that a
\* product that is a whole number in exact arithmetic may come out just
\* below it (slip = 1) and be floored to the number before.
budgetOf(length, totalOriginal, totalBudgetChars, slip) ==
  IF (totalBudgetChars * length) % totalOriginal = 0
       /\ (totalBudgetChars * length) \div totalOriginal > 0
    THEN (totalBudgetChars * length) \div totalOriginal - slip
    ELSE (totalBudgetChars * length) \div totalOriginal

truncateToolResults(results, totalBudgetChars, slips) ==
  IF totalOriginalOf(results) <= totalBudgetChars
    THEN [i \in DOMAIN results |->
            [id |-> results[i].id, content |-> results[i].content, wasTruncated |-> FALSE]]
    ELSE [i \in DOMAIN results |->
            LET budget == budgetOf(Len(results[i].content), totalOriginalOf(results),
                                   totalBudgetChars, slips[i])
                truncated == truncateToolResult(results[i].content, budget, <<>>)
            IN  [id |-> results[i].id, content |-> truncated,
                 wasTruncated |-> truncated # results[i].content]]

\* Batches of two results, of a few lengths up to MaxContentChars.
BatchLengths == {0, 1, 3, MaxContentChars \div 2, MaxContentChars}

truncateToolResultsCall ==
  /\ lastCall = NoOperation
  /\ \E style \in {"plain", "commas"} : \E n1 \in BatchLengths : \E n2 \in BatchLengths :
     \E totalBudgetChars \in 0..(2 * MaxContentChars) : \E slips \in [1..2 -> {0, 1}] :
       LET results == << [id |-> "a", content |-> ContentOf(style, n1)],
                         [id |-> "b", content |-> ContentOf("plain", n2)] >>
       IN lastCall' = [op |-> "truncateToolResults", results |-> results,
                       totalBudgetChars |-> totalBudgetChars,
                       result |-> truncateToolResults(results, totalBudgetChars, slips)]
  /\ UNCHANGED <<retryVars, storeVars, opsVars, decideVars, authVars, teleVars, wtVars, traceVars, scoreVars, sessVars>>

TruncateNext ==
  \/ truncateToolResultCall
  \/ truncateToolResultsCall

(***************************************************************************)
(* shouldRetry called directly, as retry-policy.test.ts does: any of the   *)
(* modelled error shapes with any retry count up to MaxRetryCount.         *)
(***************************************************************************)
MaxRetryCount == 2

shouldRetryCall ==
  /\ lastCall = NoOperation
  /\ \E shape \in ErrorShapes : \E n \in 0..MaxRetryCount :
       LET err == MkError("caller", 0, shape)
           ctx == [retryCount |-> n]
       IN lastCall' = [op |-> "shouldRetry", err |-> err, ctx |-> ctx,
                       result |-> shouldRetry(err, ctx)]
  /\ UNCHANGED <<retryVars, storeVars, opsVars, decideVars, authVars, teleVars, wtVars, traceVars, scoreVars, sessVars>>

ShouldRetryNext == shouldRetryCall

(***************************************************************************)
(* Part VIII.  detectRegressions (commands/telemetry.ts).  The telemetry   *)
(* store holds the records of the baseline window and of the current       *)
(* window; latencies are whole milliseconds and every quotient the code    *)
(* computes is kept exact, as a fraction <<numerator, denominator>> in     *)
(* lowest terms.  Times are counted in hours.                              *)
(***************************************************************************)
RECURSIVE Gcd(_, _)
Gcd(a, b) == IF b = 0 THEN a ELSE Gcd(b, a % b)

Magnitude(n) == IF n < 0 THEN -n ELSE n

\* The fraction n / d (d # 0) in lowest terms with a positive denominator.
Fraction(n, d) ==
  LET g == Gcd(Magnitude(n), Magnitude(d))
  IN IF d < 0 THEN <<(-n) \div g, (-d) \div g>> ELSE <<n \div g, d \div g>>

Whole(n) == <<n, 1>>

Plus(x, y) == Fraction(x[1] * y[2] + y[1] * x[2], x[2] * y[2])

Minus(x, y) == Fraction(x[1] * y[2] - y[1] * x[2], x[2] * y[2])

Product(x, y) == Fraction(x[1] * y[1], x[2] * y[2])

Over(x, y) == Fraction(x[1] * y[2], x[2] * y[1])

Greater(x, y) == x[1] * y[2] > y[1] * x[2]

BaselineHours == 168

CurrentHours == 24

\* Date.now(), in hours
RegressionNow == 400

\* const { latencyP95 = 50, failureRate = 10 } = thresholds
latencyThresholdOf(thresholds) ==
  IF "latencyP95" \in DOMAIN thresholds THEN thresholds.latencyP95 ELSE 50

failureThresholdOf(thresholds) ==
  IF "failureRate" \in DOMAIN thresholds THEN thresholds.failureRate ELSE 10

\* `${record.modelId}:${rec.role}`
KeyOf(rec) == rec.modelId \o ":" \o rec.role

\* storage.ts (not in src/): the records whose startedAt lies in the filter's
\* window, in stored order.
queryTelemetry(db, filter) ==
  SelectSeq(db, LAMBDA r : r.startedAt >= filter.startTime /\ r.startedAt < filter.endTime)

RECURSIVE InsertAscending(_, _)
InsertAscending(sorted, x) ==
  IF sorted = <<>> THEN <<x>>
  ELSE IF x < Head(sorted) THEN <<x>> \o sorted
  ELSE <<Head(sorted)>> \o InsertAscending(Tail(sorted), x)

RECURSIVE toSorted(_)
\* [...latencies].toSorted((a, b) => a - b)
toSorted(latencies) ==
  IF latencies = <<>> THEN <<>>
  ELSE InsertAscending(toSorted(Tail(latencies)), Head(latencies))

\* getPercentile: sorted[Math.max(0, Math.ceil((p / 100) * sorted.length) - 1)]
getPercentile(sorted, p) ==
  sorted[Max(0, CeilDiv(p * Len(sorted), 100) - 1) + 1]

calculatePercentiles(latencies) ==
  IF latencies = <<>> THEN [p50 |-> 0, p95 |-> 0, p99 |-> 0]
  ELSE [p50 |-> getPercentile(toSorted(latencies), 50),
        p95 |-> getPercentile(toSorted(latencies), 95),
        p99 |-> getPercentile(toSorted(latencies), 99)]

RECURSIVE KeysInOrder(_, _)
\* The (modelId, role) pairs of the records, in order of first appearance.
KeysInOrder(records, known) ==
  IF records = <<>> THEN <<>>
  ELSE IF KeyOf(Head(records)) \in known THEN KeysInOrder(Tail(records), known)
  ELSE <<Head(records)>> \o KeysInOrder(Tail(records), known \cup {KeyOf(Head(records))})

RECURSIVE LatenciesOf(_)
LatenciesOf(records) ==
  IF records = <<>> THEN <<>> ELSE <<Head(records).latencyMs>> \o LatenciesOf(Tail(records))

\* storage.ts (not in src/): one entry per (modelId, role) of the records of
\* the last `hours` hours, with its call count, failure rate (0-1) and p95.
buildRoutingScoreboard(db, hours) ==
  LET records == queryTelemetry(db, [startTime |-> RegressionNow - hours,
                                        endTime |-> RegressionNow + 1])
      firsts == KeysInOrder(records, {})
      Of(first) == SelectSeq(records, LAMBDA r : KeyOf(r) = KeyOf(first))
      Failed(first) == SelectSeq(Of(first), LAMBDA r : r.status = "failure")
  IN [entries |->
        [i \in 1..Len(firsts) |->
           [modelId |-> firsts[i].modelId, role |-> firsts[i].role,
            totalCalls |-> Len(Of(firsts[i])),
            failureRate |-> Fraction(Len(Failed(firsts[i])), Len(Of(firsts[i]))),
            latencyP95 |-> calculatePercentiles(LatenciesOf(Of(firsts[i]))).p95]]]

FailureOf(rec) == IF rec.status = "failure" THEN 1 ELSE 0

\* The body of `for (const record of baseline)`: the running averages of the
\* key's latencyMs and failures, and its number of records.
BaselineWith(byKey, rec) ==
  IF KeyOf(rec) \in DOMAIN byKey
    THEN LET existing == byKey[KeyOf(rec)]
             calls == Whole(existing.totalCalls)
         IN [byKey EXCEPT ![KeyOf(rec)] =
               [latencyP95 |-> Over(Plus(Product(existing.latencyP95, calls), Whole(rec.latencyMs)),
                                    Whole(existing.totalCalls + 1)),
                failureRate |-> Over(Plus(Product(existing.failureRate, calls), Whole(FailureOf(rec))),
                                     Whole(existing.totalCalls + 1)),
                totalCalls |-> existing.totalCalls + 1]]
    ELSE byKey @@ (KeyOf(rec) :> [latencyP95 |-> Whole(rec.latencyMs),
                                     failureRate |-> Whole(FailureOf(rec)),
                                     totalCalls |-> 1])

RECURSIVE baselineByKey(_, _)
baselineByKey(byKey, baseline) ==
  IF baseline = <<>> THEN byKey
  ELSE baselineByKey(BaselineWith(byKey, Head(baseline)), Tail(baseline))

\* if (!base || base.totalCalls < 10) continue
MinBaselineCalls == 10

\* The alerts the loop body pushes for one scoreboard entry.
AlertsOf(entry, byKey, thresholds) ==
  IF KeyOf(entry) \notin DOMAIN byKey THEN <<>>
  ELSE IF byKey[KeyOf(entry)].totalCalls < MinBaselineCalls THEN <<>>
  ELSE
    LET base == byKey[KeyOf(entry)]
        latencyChange == Product(Over(Minus(Whole(entry.latencyP95), base.latencyP95),
                                    base.latencyP95), Whole(100))
        failureDiff == Product(Minus(entry.failureRate, base.failureRate), Whole(100))
        latencyP95 == latencyThresholdOf(thresholds)
        failureRate == failureThresholdOf(thresholds)
    IN (IF Greater(base.latencyP95, Whole(0)) /\ Greater(latencyChange, Whole(latencyP95))
          THEN << [severity |-> IF Greater(latencyChange, Whole(latencyP95 * 2))
                                  THEN "critical" ELSE "warning",
                   metric |-> "latency_p95",
                   modelId |-> entry.modelId, role |-> entry.role,
                   current |-> Whole(entry.latencyP95),
                   baseline |-> base.latencyP95,
                   change |-> latencyChange] >>
          ELSE <<>>)
       \o
       (IF Greater(failureDiff, Whole(failureRate))
          THEN << [severity |-> IF Greater(failureDiff, Whole(failureRate * 2))
                                  THEN "critical" ELSE "warning",
                   metric |-> "failure_rate",
                   modelId |-> entry.modelId, role |-> entry.role,
                   current |-> Product(entry.failureRate, Whole(100)),
                   baseline |-> Product(base.failureRate, Whole(100)),
                   change |-> failureDiff] >>
          ELSE <<>>)

RECURSIVE AlertsOfEntries(_, _, _)
AlertsOfEntries(scoreboardEntries, byKey, thresholds) ==
  IF scoreboardEntries = <<>> THEN <<>>
  ELSE AlertsOf(Head(scoreboardEntries), byKey, thresholds)
         \o AlertsOfEntries(Tail(scoreboardEntries), byKey, thresholds)

RECURSIVE InsertByChange(_, _)
InsertByChange(sorted, alert) ==
  IF sorted = <<>> THEN <<alert>>
  ELSE IF Greater(alert.change, Head(sorted).change) THEN <<alert>> \o sorted
  ELSE <<Head(sorted)>> \o InsertByChange(Tail(sorted), alert)

RECURSIVE SortByChange(_, _)
\* alerts.sort((a, b) => b.change - a.change): stable, larger change first
SortByChange(sorted, alerts) ==
  IF alerts = <<>> THEN sorted
  ELSE SortByChange(InsertByChange(sorted, Head(alerts)), Tail(alerts))

detectRegressions(db, baselineHours, currentHours, thresholds) ==
  LET currentStart == RegressionNow - currentHours
      baselineEnd == currentStart
      baselineStart == baselineEnd - baselineHours
      current == buildRoutingScoreboard(db, currentHours)
      baseline == queryTelemetry(db, [startTime |-> baselineStart, endTime |-> baselineEnd])
  IN SortByChange(<<>>, AlertsOfEntries(current.entries, baselineByKey(<<>>, baseline), thresholds))

\* The stores the calls are made on: records of two models in one role,
\* with latencies of 10, 30 or 100 ms.
MaxBaselineRecords == 11

MaxCurrentRecords == 2

LatenciesMs == {10, 30, 100}

TelemetryRecord(modelId, latencyMs, status, startedAt) ==
  [modelId |-> modelId, role |-> "executor", latencyMs |-> latencyMs,
   status |-> status, startedAt |-> startedAt]

\* n baseline records of one model: the first `slow` took 100 ms and the
\* others 10 ms; the last `failed` failed.
BaselineRecords(modelId, n, slow, failed) ==
  [i \in 1..n |->
     TelemetryRecord(modelId, IF i <= slow THEN 100 ELSE 10,
                     IF i > n - failed THEN "failure" ELSE "success",
                     RegressionNow - CurrentHours - i)]

\* Current records of one model with the given latencies; the last `failed` failed.
CurrentRecords(modelId, latencies, failed) ==
  [i \in 1..Len(latencies) |->
     TelemetryRecord(modelId, latencies[i],
                     IF i > Len(latencies) - failed THEN "failure" ELSE "success",
                     RegressionNow - i)]

LatencySeqs == UNION { [1..n -> LatenciesMs] : n \in 0..MaxCurrentRecords }

BaselineSizes == {0} \cup ((MinBaselineCalls - 1)..MaxBaselineRecords)

RegressionThresholds == { <<>>, [latencyP95 |-> 100, failureRate |-> 40] }

detectRegressionsCall ==
  /\ lastCall = NoOperation
  /\ \E n1 \in BaselineSizes : \E slow \in 0..2 : \E bad \in 0..1 :
     \E latencies \in LatencySeqs : \E failed \in 0..1 :
     \E n2 \in {0, MinBaselineCalls} : \E other \in LatencySeqs :
     \E thresholds \in RegressionThresholds :
       /\ slow <= n1 /\ bad <= n1 /\ failed <= Len(latencies) /\ Len(other) <= 1
       /\ LET db == BaselineRecords("m1", n1, slow, bad)
                         \o BaselineRecords("m2", n2, 0, 0)
                         \o CurrentRecords("m1", latencies, failed)
                         \o CurrentRecords("m2", other, 0)
          IN lastCall' = [op |-> "detectRegressions", store |-> db,
                          thresholds |-> thresholds,
                          result |-> detectRegressions(db, BaselineHours, CurrentHours, thresholds)]
  /\ UNCHANGED <<retryVars, storeVars, opsVars, decideVars, authVars, teleVars, wtVars, traceVars, scoreVars, sessVars>>

RegressionNext == detectRegressionsCall

(***************************************************************************)
(* Part IX.  validateCompaction (compact-validator.ts).  A compaction      *)
(* result is a record; an optional property that is undefined is a field   *)
(* that is absent.  The summary is given by its length, the dump by        *)
(* whether it is null, the empty string or a text.                         *)
(***************************************************************************)
MaxCompactTokens == 20

\* if (preCompactDump): null and "" are falsy
Truthy(preCompactDump) == preCompactDump \notin {"null", ""}

\* `Insufficient token reduction: ${tokensBefore} -> ${tokensAfter}`
InsufficientReduction(tokensBefore, tokensAfter) ==
  <<"Insufficient token reduction", ": ", ToString(tokensBefore), " -> ",
    ToString(tokensAfter)>>

\* tokensAfter >= tokensBefore - tokensBefore * 0.1, for whole token counts
ReductionTooSmall(tokensBefore, tokensAfter) == tokensAfter * 10 >= tokensBefore * 9

validateCompaction(preCompactDump, compactedResult) ==
  IF ~compactedResult.ok \/ ~compactedResult.compacted
    THEN [approved |-> FALSE, reasons |-> << <<"Compaction failed">> >>]
  ELSE IF ~Truthy(preCompactDump) THEN [approved |-> TRUE]
  ELSE IF \/ "result" \notin DOMAIN compactedResult
          \/ "summary" \notin DOMAIN compactedResult.result
          \/ compactedResult.result.summary = 0
    THEN [approved |-> FALSE,
          reasons |-> << <<"No summary generated in compaction result">> >>]
  ELSE IF /\ "tokensBefore" \in DOMAIN compactedResult.result
          /\ "tokensAfter" \in DOMAIN compactedResult.result
          /\ ReductionTooSmall(compactedResult.result.tokensBefore,
                               compactedResult.result.tokensAfter)
    THEN [approved |-> FALSE,
          reasons |-> << InsufficientReduction(compactedResult.result.tokensBefore,
                                               compactedResult.result.tokensAfter) >>]
  ELSE IF compactedResult.result.summary < 50
    THEN [approved |-> FALSE, reasons |-> << <<"Summary is too brief/low information">> >>]
  ELSE [approved |-> TRUE]

\* Results with and without a summary (of 0, 49 or 50 characters) and with
\* and without each token count.
CompactSummaries == {[summary |-> n] : n \in {0, 49, 50}} \cup {<<>>}

CompactCounts(field) == {field :> n : n \in 0..MaxCompactTokens} \cup {<<>>}

CompactResults ==
  { x @@ y @@ z : x \in CompactSummaries, y \in CompactCounts("tokensBefore"),
                  z \in CompactCounts("tokensAfter") }

validateCompactionCall ==
  /\ lastCall = NoOperation
  /\ \E preCompactDump \in {"null", "", "dump"} : \E ok \in BOOLEAN : \E compacted \in BOOLEAN :
     \E compactedResult \in {[ok |-> ok, compacted |-> compacted]}
                               \cup {[ok |-> ok, compacted |-> compacted, result |-> r] :
                                       r \in CompactResults} :
       lastCall' = [op |-> "validateCompaction", preCompactDump |-> preCompactDump,
                    compactedResult |-> compactedResult,
                    result |-> validateCompaction(preCompactDump, compactedResult)]
  /\ UNCHANGED <<retryVars, storeVars, opsVars, decideVars, authVars, teleVars, wtVars, traceVars, scoreVars, sessVars>>

ValidateNext == validateCompactionCall

(***************************************************************************)
(* Part X.  Telemetry sessions (src/commands/telemetry.ts, module          *)
(* observability/telemetry).  Every function runs to completion: none of   *)
(* them awaits.  Date.now() is sessionClock, which advances between calls. *)
(***************************************************************************)
MaxSessionClock == 1

\* The ids createTelemetryRecord hands out, in order; callers may also pass
\* an id whose session has not been started.
TelemetryIds == <<"tel-1", "tel-2">>

SessionIds == {TelemetryIds[i] : i \in 1..Len(TelemetryIds)}

NoSessions == [k \in {} |-> k]

\* createTelemetryRecord (./storage.js): a record with a fresh id and
\* startedAt = Date.now(), carrying the parameters that were given.
createTelemetryRecord(params, id, at) ==
  [id |-> id, startedAt |-> at] @@ params

\* storeTelemetry (./storage.js): the record is added to the store.
storeTelemetry(db, rec) == Append(db, rec)

StartParams ==
  { [modelId |-> "gpt-4", isSubagent |-> FALSE] @@ a : a \in {<<>>, [artifactBytes |-> 100]} }

\* startTelemetrySession(params)
startTelemetrySession(params) ==
  /\ sessionsStarted < Len(TelemetryIds)
  /\ LET created == createTelemetryRecord(params, TelemetryIds[sessionsStarted + 1], sessionClock)
     IN  activeSessions' = (created.id :> created) @@ activeSessions
  /\ sessionsStarted' = sessionsStarted + 1
  /\ UNCHANGED <<storedRecords, sessionClock, removedBy, updatesOf, completedWith>>
  /\ UNCHANGED <<retryVars, storeVars, opsVars, decideVars, authVars, teleVars, wtVars, traceVars, callVars, scoreVars>>

\* The properties completeTelemetrySession sets to result.<property>,
\* undefined when the result does not have it.
ResultProperties ==
  {"status", "errorKind", "errorMessage", "promptTokens", "completionTokens",
   "cacheReadTokens", "cacheWriteTokens", "totalTokens", "stopReason",
   "escalationCodes", "localMemoryPressure"}

\* const record = { ...session, completedAt, latencyMs, status: result.status, ... }
\* A property whose value is undefined is an absent field.
CompletedRecord(session, result, completedAt) ==
  [completedAt |-> completedAt,
   latencyMs |-> completedAt - OrElse(session, "startedAt", completedAt),
   retryCount |-> OrElse(result, "retryCount", OrElse(session, "retryCount", 0))]
  @@ [f \in DOMAIN result \cap ResultProperties |-> result[f]]
  @@ [f \in DOMAIN session \ ResultProperties |-> session[f]]

\* map.delete(id)
Deleted(map, id) == [k \in DOMAIN map \ {id} |-> map[k]]

\* Faulty variant of ActiveAfterComplete: the session is deleted inside the
\* try block, after storeTelemetry.
ActiveAfterCompleteInsideTry(active, sessionId, storeFailed) ==
  IF storeFailed THEN active ELSE Deleted(active, sessionId)

\* activeSessions.delete(sessionId), after the try/catch around storeTelemetry
ActiveAfterComplete(active, sessionId, storeFailed) == Deleted(active, sessionId)

CompletionResults ==
  { [status |-> "success"] @@ r @@ e :
      r \in {<<>>, [retryCount |-> 5]},
      e \in {<<>>, [escalationCodes |-> <<"E9">>]} }

\* completeTelemetrySession(sessionId, result); storeFailed: storeTelemetry throws
completeTelemetrySession(sessionId, result, storeFailed) ==
  /\ IF sessionId \notin DOMAIN activeSessions
       THEN /\ ~storeFailed
            /\ UNCHANGED <<activeSessions, storedRecords, removedBy, completedWith>>
       ELSE /\ storedRecords' =
                 IF storeFailed THEN storedRecords
                 ELSE storeTelemetry(storedRecords,
                        CompletedRecord(activeSessions[sessionId], result, sessionClock))
            /\ activeSessions' = ActiveAfterComplete(activeSessions, sessionId, storeFailed)
            /\ removedBy' = IF sessionId \in DOMAIN activeSessions'
                              THEN removedBy
                              ELSE [removedBy EXCEPT ![sessionId] =
                                      IF storeFailed THEN "complete-failed" ELSE "complete"]
            /\ completedWith' = [completedWith EXCEPT ![sessionId] = result]
  /\ UNCHANGED <<sessionClock, sessionsStarted, updatesOf>>
  /\ UNCHANGED <<retryVars, storeVars, opsVars, decideVars, authVars, teleVars, wtVars, traceVars, callVars, scoreVars>>

\* One field at a time, or all three.
SessionUpdates ==
  { [retryCount |-> 1], [escalationCodes |-> <<"E1">>], [artifactBytes |-> 200],
    [retryCount |-> 1, escalationCodes |-> <<"E1">>, artifactBytes |-> 200] }

\* updateTelemetrySession(sessionId, updates): Object.assign(session, updates)
updateTelemetrySession(sessionId, updates) ==
  /\ IF sessionId \notin DOMAIN activeSessions
       THEN UNCHANGED <<activeSessions, updatesOf>>
       ELSE /\ activeSessions' = [activeSessions EXCEPT ![sessionId] = updates @@ @]
            /\ updatesOf' = [updatesOf EXCEPT ![sessionId] = updates @@ @]
  /\ UNCHANGED <<storedRecords, sessionClock, sessionsStarted, removedBy, completedWith>>
  /\ UNCHANGED <<retryVars, storeVars, opsVars, decideVars, authVars, teleVars, wtVars, traceVars, callVars, scoreVars>>

\* cancelTelemetrySession(sessionId)
cancelTelemetrySession(sessionId) ==
  /\ activeSessions' = Deleted(activeSessions, sessionId)
  /\ removedBy' = IF sessionId \in DOMAIN activeSessions
                    THEN [removedBy EXCEPT ![sessionId] = "cancel"]
                    ELSE removedBy
  /\ UNCHANGED <<storedRecords, sessionClock, sessionsStarted, updatesOf, completedWith>>
  /\ UNCHANGED <<retryVars, storeVars, opsVars, decideVars, authVars, teleVars, wtVars, traceVars, callVars, scoreVars>>

\* const age = now - (session.startedAt ?? 0); if (age > maxAgeMs) ...
Stale(active, at, maxAgeMs) ==
  {id \in DOMAIN active : at - OrElse(active[id], "startedAt", 0) > maxAgeMs}

\* cleanupStaleSessions(maxAgeMs)
cleanupStaleSessions(maxAgeMs) ==
  /\ activeSessions' = [k \in DOMAIN activeSessions \ Stale(activeSessions, sessionClock, maxAgeMs) |->
                          activeSessions[k]]
  /\ removedBy' = [id \in SessionIds |->
                     IF id \in Stale(activeSessions, sessionClock, maxAgeMs)
                       THEN "cleanup" ELSE removedBy[id]]
  /\ UNCHANGED <<storedRecords, sessionClock, sessionsStarted, updatesOf, completedWith>>
  /\ UNCHANGED <<retryVars, storeVars, opsVars, decideVars, authVars, teleVars, wtVars, traceVars, callVars, scoreVars>>

\* Time passes between two calls.
ClockAdvances ==
  /\ sessionClock < MaxSessionClock
  /\ sessionClock' = sessionClock + 1
  /\ UNCHANGED <<activeSessions, storedRecords, sessionsStarted, removedBy, updatesOf, completedWith>>
  /\ UNCHANGED <<retryVars, storeVars, opsVars, decideVars, authVars, teleVars, wtVars, traceVars, callVars, scoreVars>>

MaxAges == {0, 1}

SessionsNext ==
  \/ \E params \in StartParams : startTelemetrySession(params)
  \/ \E sessionId \in SessionIds : \E result \in CompletionResults : \E storeFailed \in BOOLEAN :
       completeTelemetrySession(sessionId, result, storeFailed)
  \/ \E sessionId \in SessionIds : \E updates \in SessionUpdates :
       updateTelemetrySession(sessionId, updates)
  \/ \E sessionId \in SessionIds : cancelTelemetrySession(sessionId)
  \/ \E maxAgeMs \in MaxAges : cleanupStaleSessions(maxAgeMs)
  \/ ClockAdvances

(***************************************************************************)
(* Part II.  Properties of the auto-compaction guard.                      *)
(***************************************************************************)
BothReturned(p, q) ==
  /\ p # q
  /\ spc[p] = "returned"
  /\ spc[q] = "returned"
  /\ q \in concurrentWith[p]

SameRequest(p, q) ==
  /\ lastReturn[p].sessionKey = lastReturn[q].sessionKey
  /\ lastReturn[p].totalTokens = lastReturn[q].totalTokens
  /\ lastReturn[p].contextTokens = lastReturn[q].contextTokens

\* C7: when two processes call decideAndRecordSessionAutoCompact concurrently
\* for the same session key with the same totalTokens and contextTokens, at
\* most one of the two calls returns shouldCompact = true, whatever the order
\* in which they get the lock.
C7_AtMostOneCompacts ==
  \A p \in Procs : \A q \in Procs :
    (BothReturned(p, q) /\ SameRequest(p, q))
      => ~(lastReturn[p].decision.shouldCompact /\ lastReturn[q].decision.shouldCompact)

C7_Witness ==
  /\ BothReturned("p1", "p2")
  /\ SameRequest("p1", "p2")
  /\ ~lastReturn["p1"].decision.shouldCompact
  /\ lastReturn["p1"].decision.reason \in {"rate-limited", "no-token-growth"}
  /\ lastReturn["p2"].decision.shouldCompact

\* The step in which process p writes the store back and returns.
Saves(p) == spc[p] = "updated" /\ spc'[p] = "returned"

HasCompactFields(entry) ==
  \/ "sessionAutoCompactLastAt" \in DOMAIN entry
  \/ "sessionAutoCompactLastAtTokens" \in DOMAIN entry

\* C8: a call writes sessionAutoCompactLastAt = now and
\* sessionAutoCompactLastAtTokens = totalTokens on the entry exactly when the
\* decision it returns has shouldCompact = true; when it returns
\* shouldCompact = false, the two fields are not written, an entry that
\* already existed for the session key is left as it was, and so is the entry
\* of every other session key.
C8_RecordsIffCompact ==
  [][\A p \in Procs :
       Saves(p) =>
         LET key == call[p].sessionKey IN
         /\ decision[p].shouldCompact
              => /\ key \in DOMAIN store'
                 /\ store'[key].sessionAutoCompactLastAt = call[p].now
                 /\ store'[key].sessionAutoCompactLastAtTokens = call[p].totalTokens
         /\ ~decision[p].shouldCompact
              => /\ key \in DOMAIN store => store'[key] = store[key]
                 /\ key \notin DOMAIN store
                      => (key \in DOMAIN store' => ~HasCompactFields(store'[key]))
                 /\ \A other \in DOMAIN store \ {key} :
                      other \in DOMAIN store' /\ store'[other] = store[other]
                 /\ DOMAIN store' \subseteq DOMAIN store \cup {key}]_vars

C8_Witness ==
  /\ spc["p1"] = "returned"
  /\ lastReturn["p1"].sessionKey = "k1"
  /\ lastReturn["p1"].decision.reason = "rate-limited"
  /\ DOMAIN store = {"k1", "k2"}
  /\ HasCompactFields(store["k1"])
  /\ HasCompactFields(store["k2"])
  /\ store["k1"] # store["k2"]

\* C33: on one session key, each shouldCompact = true decision has a
\* totalTokens strictly above that of the true decision before it, and
\* sessionAutoCompactLastAtTokens never decreases.
C33_CompactionTokensIncrease ==
  [][\A p \in Procs :
       Saves(p) =>
         LET key == call[p].sessionKey IN
         /\ (decision[p].shouldCompact /\ key \in DOMAIN lastHit)
              => call[p].totalTokens > lastHit[key].tokens
         /\ \A k \in DOMAIN store :
              /\ k \in DOMAIN store'
              /\ FieldOrZero(store'[k], "sessionAutoCompactLastAtTokens")
                   >= FieldOrZero(store[k], "sessionAutoCompactLastAtTokens")]_vars

\* Two true decisions on k1, the later one by p2 at a higher token count.
C33_Witness ==
  /\ BothReturned("p1", "p2")
  /\ lastReturn["p1"].decision.shouldCompact
  /\ lastReturn["p2"].decision.shouldCompact
  /\ lastHit["k1"].by = "p2"
  /\ lastReturn["p2"].totalTokens > lastReturn["p1"].totalTokens
  /\ store["k1"].sessionAutoCompactLastAtTokens = lastReturn["p2"].totalTokens

\* C34: a call whose decision is shouldCompact = false leaves the session
\* store unchanged, its set of keys included: no entry is created for a
\* session key that was absent.
C34_FalseDecisionLeavesStore ==
  [][\A p \in Procs :
       (Saves(p) /\ ~decision[p].shouldCompact) => store' = store]_vars

\* What the code does: on a false decision for an absent key it stores the
\* fresh entry { sessionId, updatedAt: now }; an existing entry stays.
C34_FalseDecisionCreatesEntry ==
  [][\A p \in Procs :
       (Saves(p) /\ ~decision[p].shouldCompact) =>
         IF call[p].sessionKey \in DOMAIN store
           THEN store' = store
           ELSE store' = Put(store, call[p].sessionKey,
                             [sessionId |-> call[p].sessionId, updatedAt |-> call[p].now])]_vars

\* A false decision returned for k1 on an empty store, and k1 is in the store.
C34_EntryCreatedByNonDecision ==
  /\ spc["p1"] = "returned"
  /\ lastReturn["p1"].sessionKey = "k1"
  /\ ~lastReturn["p1"].decision.shouldCompact
  /\ DOMAIN store = {"k1"}
  /\ ~HasCompactFields(store["k1"])

PassesFirstChecks(c) ==
  /\ c.cfg.enabled
  /\ c.totalTokens > 0
  /\ c.contextTokens > 0
  /\ ~(c.totalTokens * c.cfg.thresholdDen < c.cfg.thresholdNum * c.contextTokens)

\* C9: once a call has returned threshold-hit at time t with T tokens for a
\* session key, every later call for that key, by the same or by another
\* process, that passes the enabled, token-metrics and threshold checks
\* decides rate-limited while now - t < minIntervalMs, and no-token-growth
\* once the interval has elapsed if totalTokens <= T.
C9_RateLimitFromStore ==
  \A p \in Procs :
    (/\ spc[p] = "updated"
     /\ call[p].sessionKey \in DOMAIN lastHit
     /\ PassesFirstChecks(call[p]))
      => LET hit == lastHit[call[p].sessionKey] IN
         /\ call[p].now - hit.at < call[p].cfg.minIntervalMs
              => decision[p] = [shouldCompact |-> FALSE, reason |-> "rate-limited"]
         /\ (/\ ~(call[p].now - hit.at < call[p].cfg.minIntervalMs)
             /\ call[p].totalTokens <= hit.tokens)
              => decision[p] = [shouldCompact |-> FALSE, reason |-> "no-token-growth"]

C9_Witness ==
  /\ spc["p2"] = "updated"
  /\ call["p2"].sessionKey \in DOMAIN lastHit
  /\ lastHit[call["p2"].sessionKey].by = "p1"
  /\ call["p2"].cfg.minIntervalMs > 0
  /\ call["p2"].now - lastHit[call["p2"].sessionKey].at >= call["p2"].cfg.minIntervalMs
  /\ call["p2"].totalTokens <= lastHit[call["p2"].sessionKey].tokens
  /\ decision["p2"].reason = "no-token-growth"

\* The reason the claimed order of checks gives for the drawn parameters.
FirstFailingCheck(i) ==
  IF ~i.cfg.enabled THEN "disabled"
  ELSE IF i.totalTokens <= 0 \/ i.contextTokens <= 0 THEN "missing-token-metrics"
  ELSE IF i.totalTokens * i.cfg.thresholdDen < i.cfg.thresholdNum * i.contextTokens
    THEN "below-threshold"
  ELSE IF i.lastAutoCompactAt > 0 /\ i.now - i.lastAutoCompactAt < i.cfg.minIntervalMs
    THEN "rate-limited"
  ELSE IF i.totalTokens <= i.lastAutoCompactAtTokens THEN "no-token-growth"
  ELSE "threshold-hit"

\* C10: decideSessionAutoCompact returns the reason of the first failing check
\* in the order disabled, missing-token-metrics, below-threshold, rate-limited,
\* no-token-growth, and returns shouldCompact = true with reason threshold-hit
\* exactly when none of the checks fails.
C10_ReasonPrecedence ==
  dout # NoDecision
    => /\ dout.reason = FirstFailingCheck(din)
       /\ dout.shouldCompact <=> (FirstFailingCheck(din) = "threshold-hit")

C10_Witness ==
  /\ dout = [shouldCompact |-> FALSE, reason |-> "rate-limited"]
  /\ din.totalTokens <= din.lastAutoCompactAtTokens
  /\ din.lastAutoCompactAt > 0

RateLimitStamps == {"updatedAt", "sessionAutoCompactLastAt", "sessionTokenWarningLastAt"}

\* C12: for every session key and every sequence of store updates made by
\* decideAndRecordSessionAutoCompact, recordSessionAutoCompactState and
\* maybeWarnSessionTokenPressure, with arbitrary now values, the entry's
\* updatedAt, sessionAutoCompactLastAt and sessionTokenWarningLastAt never
\* decrease.
C12_TimestampsNeverDecrease ==
  [][\A key \in DOMAIN store :
       /\ key \in DOMAIN store'
       /\ \A f \in RateLimitStamps :
            FieldOrZero(store'[key], f) >= FieldOrZero(store[key], f)]_vars

\* What the code does guarantee there: updatedAt and
\* sessionTokenWarningLastAt never decrease.
UpdatedAtAndWarningStampNeverDecrease ==
  [][\A key \in DOMAIN store :
       /\ key \in DOMAIN store'
       /\ \A f \in {"updatedAt", "sessionTokenWarningLastAt"} :
            FieldOrZero(store'[key], f) >= FieldOrZero(store[key], f)]_vars

\* The auto-compact stamp goes back only in a write of
\* recordSessionAutoCompactState.
AutoCompactStampDecreasesOnlyInRecord ==
  [][\A key \in DOMAIN store :
       (key \in DOMAIN store'
        /\ FieldOrZero(store'[key], "sessionAutoCompactLastAt")
             < FieldOrZero(store[key], "sessionAutoCompactLastAt"))
         => \E p \in Procs : spc[p] = "rec_updated" /\ spc'[p] = "rec_returned"]_vars

\* C13: two concurrent store updates, each adding an entry for a different and
\* previously absent session key, serialize under the store lock: under every
\* interleaving the store holds the entry of every update that has finished;
\* neither update is lost.
C13_NoLostUpdate ==
  /\ written \subseteq DOMAIN store
  /\ \A p \in Procs : spc[p] \in {"updated", "rec_updated"} => lockHolder = p

C13_Witness ==
  /\ spc["p1"] = "rec_returned"
  /\ spc["p2"] = "returned"
  /\ "p2" \in concurrentWith["p1"]
  /\ written = {"k1", "k2"}
  /\ DOMAIN store = {"k1", "k2"}
  /\ store["k1"].sessionAutoCompactLastAt = MaxNow
  /\ "sessionAutoCompactLastAt" \notin DOMAIN store["k2"]

\* The step in which process p writes the store back and returns from
\* maybeWarnSessionTokenPressure.
WarnSaves(p) == spc[p] = "warn_updated" /\ spc'[p] = "warn_returned"

\* C14: maybeWarnSessionTokenPressure returns warned = true at time t only if
\* no warning was recorded for that session at a time t' > 0 with
\* t - t' < minIntervalMs, and only if the entry's totalTokens is greater than
\* the token count recorded at the previous warning; when it warns, the same
\* store update leaves now and totalTokens on the entry.
C14_WarningRateLimited ==
  [][\A p \in Procs :
       (WarnSaves(p) /\ warned[p]) =>
         LET key == call[p].sessionKey IN
         /\ key \in DOMAIN store
         /\ \A w \in warnLog[key] :
              /\ ~(w.at > 0 /\ call[p].now - w.at < call[p].cfg.minIntervalMs)
              /\ store[key].totalTokens > w.tokens
         /\ store[key].totalTokens > FieldOrZero(store[key], "sessionTokenWarningLastAtTokens")
         /\ store'[key].sessionTokenWarningLastAt = call[p].now
         /\ store'[key].sessionTokenWarningLastAtTokens = store[key].totalTokens
         /\ store'[key].totalTokens = store[key].totalTokens
         /\ warned'[p]]_vars

C14_Witness ==
  /\ spc["p2"] = "warn_returned"
  /\ warned["p2"]
  /\ Cardinality(warnLog["k1"]) = 2
  /\ \E w \in warnLog["k1"] : w.at = store["k1"].sessionTokenWarningLastAt /\ w.at = MaxNow
  /\ \E w \in warnLog["k1"] : w.at < store["k1"].sessionTokenWarningLastAt
  /\ "p1" \in concurrentWith["p2"]

(***************************************************************************)
(* Part III.  Properties of env autosync.                                  *)
(***************************************************************************)
\* C15: an autosync run that returns adds the profile "<provider>:env" only
\* for a known provider that had zero profiles before the call, for which an
\* environment credential resolves, and whose "<provider>:env" id was absent;
\* every profile that existed before the call is present with an identical
\* credential after it.
C15_AddsOnlyMissingProviders ==
  [][consecutive' >= 1 =>
       /\ \A id \in DOMAIN authStore :
            id \in DOMAIN authStore' /\ authStore'[id] = authStore[id]
       /\ \A id \in DOMAIN authStore' \ DOMAIN authStore :
            \E i \in 1..Len(KNOWN_ENV_PROVIDERS) :
              /\ id = KNOWN_ENV_PROVIDERS[i] \o ":env"
              /\ \A old \in DOMAIN authStore :
                   normalizeProviderId(authStore[old].provider) # KNOWN_ENV_PROVIDERS[i]
              /\ resolveEnvVarCredentialForProvider(KNOWN_ENV_PROVIDERS[i], env) # NoCredential
              /\ authStore'[id].provider = KNOWN_ENV_PROVIDERS[i]]_vars

C15_Witness ==
  /\ consecutive = 1
  /\ syncResult.status = "resolved"
  /\ Len(syncResult.added) = 1
  /\ DOMAIN authStore = {"anthropic:env", "openai:env"}
  /\ authStore["anthropic:env"].type = "api_key"
  /\ authStore["openai:env"] = SeedProfiles["openai:env"]
  /\ Trim(env["OPENAI_API_KEY"]) # ""

\* C16: when autosync is run twice in succession with an unchanged
\* environment (and file), the second run adds no profile, reports
\* mutated = false, and leaves the store as the first run left it.
C16_AutosyncIdempotent ==
  [][(consecutive >= 1 /\ consecutive' >= 1) =>
       /\ authStore' = authStore
       /\ syncResult'.status = "resolved"
       /\ syncResult'.mutated = FALSE
       /\ syncResult'.added = <<>>]_vars

C16_Witness ==
  /\ consecutive = 2
  /\ syncResult = [status |-> "resolved", mutated |-> FALSE, added |-> <<>>]
  /\ DOMAIN authStore = {"anthropic:env", "openai:env"}
  /\ authStore["anthropic:env"] = [type |-> "token", provider |-> "anthropic", token |-> "k1"]
  /\ authStore["openai:env"] = [type |-> "api_key", provider |-> "openai", key |-> "k2"]

Pruned == lastCall.op = "pruneHistory"

SystemMessages(messages) == SelectSeq(messages, LAMBDA msg : msg.role = "system")

\* C23: the role=system messages of pruneHistory's output are the
\* role=system messages of its input, element by element and in order.
C23_SystemMessagesKept ==
  Pruned => SystemMessages(lastCall.result.messages) = SystemMessages(lastCall.messages)

C23_Witness ==
  /\ Pruned
  /\ lastCall.result.prunedCount = 2
  /\ Len(SystemMessages(lastCall.messages)) = 2
  /\ lastCall.messages[1].role = "user"
  /\ lastCall.messages[2].role = "system"
  /\ lastCall.result.tokensAfter > lastCall.budgetTokens

UserIndices(messages) == { i \in 1..Len(messages) : messages[i].role = "user" }

\* Index of the k-th user message counted from the end (k >= 1).
EarliestRecentUser(messages, k) ==
  CHOOSE i \in UserIndices(messages) :
    Cardinality({ j \in UserIndices(messages) : j >= i }) = k

\* The content strings are all different, so a message is in the output iff
\* its content is.
Remains(messages, i, output) == \E k \in 1..Len(output) : output[k] = messages[i]

\* C24: when the input has at least minRecentTurns user messages, the last
\* minRecentTurns user messages and every message after the earliest of them
\* are in pruneHistory's output.
C24_RecentTurnsKept ==
  (Pruned /\ Cardinality(UserIndices(lastCall.messages)) >= minRecentOf(lastCall.options)
          /\ minRecentOf(lastCall.options) >= 1)
    => \A i \in 1..Len(lastCall.messages) :
         i >= EarliestRecentUser(lastCall.messages, minRecentOf(lastCall.options))
           => Remains(lastCall.messages, i, lastCall.result.messages)

C24_Witness ==
  /\ Pruned
  /\ minRecentOf(lastCall.options) = 2
  /\ Len(lastCall.messages) = 4
  /\ lastCall.messages[1].role = "user"
  /\ lastCall.messages[2].role = "user"
  /\ lastCall.messages[3].role = "assistant"
  /\ lastCall.messages[4].role = "user"
  /\ lastCall.budgetTokens = 0
  /\ lastCall.result.prunedCount = 1
  /\ Len(lastCall.result.messages) = 3

Dropped == { i \in 1..Len(lastCall.messages) :
               ~Remains(lastCall.messages, i, lastCall.result.messages) }

Unprotected ==
  { i \in 1..Len(lastCall.messages) :
      i \notin protectedIndices(lastCall.messages, minRecentOf(lastCall.options)) }

RECURSIVE TokensOf(_, _)
TokensOf(messages, indices) ==
  IF indices = {} THEN 0
  ELSE LET i == CHOOSE j \in indices : TRUE
       IN  estimateMessageTokens(messages[i]) + TokensOf(messages, indices \ {i})

\* C30: when tokensBefore > budget, the dropped messages are the shortest
\* oldest-first prefix of the unprotected messages whose removal brings the
\* estimated total to at most the budget, or all of them if no prefix does:
\* only unprotected messages are dropped, none while an earlier unprotected
\* one is kept, the last one was dropped while the total still exceeded the
\* budget, and dropping stopped only within budget or with none left.
C30_ShortestOldestPrefixDropped ==
  (Pruned /\ lastCall.result.tokensBefore > lastCall.budgetTokens) =>
    /\ Dropped \subseteq Unprotected
    /\ \A i \in Dropped : \A j \in Unprotected : j < i => j \in Dropped
    /\ \A i \in Dropped :
         lastCall.result.tokensBefore
           - TokensOf(lastCall.messages, { j \in Dropped : j < i }) > lastCall.budgetTokens
    /\ \/ Dropped = Unprotected
       \/ lastCall.result.tokensBefore - TokensOf(lastCall.messages, Dropped)
            <= lastCall.budgetTokens

C30_Witness ==
  /\ Pruned
  /\ lastCall.result.tokensBefore > lastCall.budgetTokens
  /\ Cardinality(Unprotected) = 3
  /\ Dropped # {}
  /\ Cardinality(Dropped) = 2
  /\ lastCall.result.tokensAfter <= lastCall.budgetTokens
  /\ lastCall.messages[1].role = "system"

\* An over-budget history with at least one user message but fewer than
\* minRecentTurns of them.
FewerTurnsThanMinRecent ==
  /\ Pruned
  /\ lastCall.result.tokensBefore > lastCall.budgetTokens
  /\ UserIndices(lastCall.messages) # {}
  /\ Cardinality(UserIndices(lastCall.messages)) < minRecentOf(lastCall.options)

\* C40: in an over-budget history with at least one but fewer than
\* minRecentTurns user messages, the most recent user message and every
\* message after it are not dropped.
C40_FewTurnsStillProtected ==
  FewerTurnsThanMinRecent =>
    \A i \in 1..Len(lastCall.messages) :
      i >= EarliestRecentUser(lastCall.messages, 1) => i \notin Dropped

\* What the code does with such a history: recentCutoff stays at
\* nonSystemMessages.length, so only the system messages are protected.
C40_OnlySystemProtected ==
  FewerTurnsThanMinRecent =>
    protectedIndices(lastCall.messages, minRecentOf(lastCall.options))
      = { i \in 1..Len(lastCall.messages) : lastCall.messages[i].role = "system" }

\* One user message, the default minRecentTurns and a budget of 0: the
\* message is dropped.
C40_OnlyUserMessageDropped ==
  /\ Pruned
  /\ lastCall.options = <<>>
  /\ lastCall.budgetTokens = 0
  /\ Len(lastCall.messages) = 1
  /\ lastCall.messages[1].role = "user"
  /\ lastCall.result.messages = <<>>

(***************************************************************************)
(* Properties of token estimation.                                         *)
(***************************************************************************)
Estimated == lastCall.op = "estimateMessageTokens"

\* Characters of text in a message: the string, or the text parts.
TextualChars(message) ==
  IF message.content.kind = "string"
    THEN message.content.length
    ELSE PartsCharCount(SelectSeq(message.content.parts, LAMBDA part : part.type = "text"))

NonTextParts(message) ==
  IF message.content.kind = "string"
    THEN 0
    ELSE Len(SelectSeq(message.content.parts, LAMBDA part : part.type # "text"))

\* The content length of spec section 3: text lengths, and 100 for each
\* non-text part.
ContentLength(message) == TextualChars(message) + 100 * NonTextParts(message)

\* C25 as stated: a message with strictly fewer textual characters has a
\* strictly smaller estimate.
C25_EstimateStrictlyMonotone ==
  (Estimated /\ TextualChars(lastCall.m1) < TextualChars(lastCall.m2))
    => lastCall.tokens1 < lastCall.tokens2

\* C25, amended: the estimate is monotone, not strictly, in the content
\* length (text characters plus 100 per non-text part): a shorter content
\* never has a larger estimate, and has a strictly smaller one when it is
\* shorter by CHARS_PER_TOKEN characters or more.
C25_EstimateMonotone ==
  (Estimated /\ ContentLength(lastCall.m1) < ContentLength(lastCall.m2))
    => /\ lastCall.tokens1 <= lastCall.tokens2
       /\ ContentLength(lastCall.m2) - ContentLength(lastCall.m1) >= CHARS_PER_TOKEN
            => lastCall.tokens1 < lastCall.tokens2

C25_Witness ==
  /\ Estimated
  /\ lastCall.m1.content = StringContent("s", 1)
  /\ lastCall.m2.content = StringContent("s", 2)
  /\ lastCall.tokens1 = 3
  /\ lastCall.tokens2 = 3

(***************************************************************************)
(* Properties of tool-result truncation.                                   *)
(***************************************************************************)
Truncated == lastCall.op = "truncateToolResult"

Contains(text, part) ==
  \E i \in 1..(Len(text) - Len(part) + 1) : SubSeq(text, i, i + Len(part) - 1) = part

TruncatedMarker == <<"t", "r", "u", "n", "c", "a", "t", "e", "d", " ">>

\* C26: truncateToolResult returns a content of at most maxChars characters
\* unchanged, and for a longer content returns a string that contains
\* "truncated ".
C26_UnchangedOrMarked ==
  Truncated =>
    IF Len(lastCall.content) <= lastCall.maxChars
      THEN lastCall.result = lastCall.content
      ELSE Contains(lastCall.result, TruncatedMarker)

C26_Witness ==
  /\ Truncated
  /\ lastCall.options = <<>>
  /\ lastCall.content = ContentOf("commas", 64)
  /\ lastCall.maxChars = 60
  /\ Contains(lastCall.result, TruncatedMarker)
  /\ Len(lastCall.result) < 64
  /\ lastCall.result[1] = "{"

(***************************************************************************)
(* Properties of the error taxonomy and of shouldRetry.                    *)
(***************************************************************************)
Decided == lastCall.op = "shouldRetry"

\* An error that is no FailoverError, that the failover classification
\* leaves unclassified, and whose HTTP status is a 5xx.
UnclassifiedServerStatus(err) ==
  /\ ~isFailoverError(err)
  /\ resolveFailoverReasonFromError(err) = "none"
  /\ err.status >= 500 /\ err.status < 600

\* C27: the HTTP status is examined before the system error code and the
\* message patterns, so an error with a 5xx status is categorized
\* server_error even when it also carries a network error code or a
\* network-like message.
C27_StatusBeforeCodeAndMessage ==
  (Decided /\ UnclassifiedServerStatus(lastCall.err))
    => lastCall.result.category = "server_error"

\* What the code does with those errors: the network code and the network
\* message win over the 5xx status.
C27_NetworkBeforeStatus ==
  (Decided /\ UnclassifiedServerStatus(lastCall.err))
    => lastCall.result.category =
         IF lastCall.err.code \in NetworkCodes \/ "network" \in lastCall.err.msg
           THEN "network" ELSE "server_error"

\* C28: shouldRetry is true exactly when retryCount = 0 and the category is
\* rate_limit, timeout, server_error or network; with retryCount >= 1 it is
\* false with a reason containing "Max retries exhausted", whatever the
\* category; the returned category is categorizeError(err).
C28_ShouldRetryDecision ==
  Decided =>
    /\ lastCall.result.shouldRetry
          <=> /\ lastCall.ctx.retryCount = 0
              /\ categorizeError(lastCall.err)
                    \in {"rate_limit", "timeout", "server_error", "network"}
    /\ lastCall.ctx.retryCount >= 1
          => /\ ~lastCall.result.shouldRetry
             /\ \E i \in DOMAIN lastCall.result.reason :
                   lastCall.result.reason[i] = "Max retries exhausted"
    /\ lastCall.result.category = categorizeError(lastCall.err)

C28_Witness ==
  /\ Decided
  /\ lastCall.ctx.retryCount = 1
  /\ lastCall.err.status = 429
  /\ lastCall.result.category = "rate_limit"
  /\ ~lastCall.result.shouldRetry
  /\ lastCall.result.reason = <<"Max retries exhausted", " (retryCount=", "1", ")">>

(***************************************************************************)
(* Properties of detectRegressions.                                        *)
(***************************************************************************)
Detected == lastCall.op = "detectRegressions"

RegressionModels == {"m1", "m2"}

\* The records of one model in the baseline window and in the current one.
BaselineWindow(m) ==
  SelectSeq(queryTelemetry(lastCall.store,
                           [startTime |-> RegressionNow - CurrentHours - BaselineHours,
                            endTime |-> RegressionNow - CurrentHours]),
            LAMBDA r : r.modelId = m)

CurrentWindow(m) ==
  SelectSeq(queryTelemetry(lastCall.store,
                           [startTime |-> RegressionNow - CurrentHours,
                            endTime |-> RegressionNow + 1]),
            LAMBDA r : r.modelId = m)

BaselineP95(m) == calculatePercentiles(LatenciesOf(BaselineWindow(m))).p95

CurrentP95(m) == calculatePercentiles(LatenciesOf(CurrentWindow(m))).p95

RECURSIVE SumOf(_)
SumOf(numbers) == IF numbers = <<>> THEN 0 ELSE Head(numbers) + SumOf(Tail(numbers))

LatencyAlerts(m) ==
  { i \in DOMAIN lastCall.result :
      lastCall.result[i].metric = "latency_p95" /\ lastCall.result[i].modelId = m }

AlertsFor(m) == { i \in DOMAIN lastCall.result : lastCall.result[i].modelId = m }

SortedByChange ==
  \A i, j \in DOMAIN lastCall.result :
    i < j => ~Greater(lastCall.result[j].change, lastCall.result[i].change)

\* C29: for a pair with at least 10 baseline records there is a latency
\* alert exactly when the current p95 exceeds the baseline p95 by more than
\* the threshold percentage, critical iff the change is more than twice the
\* threshold; a pair with fewer than 10 baseline records has no alert; the
\* alerts are sorted by change descending.
C29_LatencyAlertAgainstBaselineP95 ==
  Detected =>
    /\ \A m \in RegressionModels :
          IF Len(BaselineWindow(m)) >= 10
            THEN /\ LatencyAlerts(m) # {}
                       <=> (CurrentP95(m) - BaselineP95(m)) * 100
                             > latencyThresholdOf(lastCall.thresholds) * BaselineP95(m)
                 /\ \A i \in LatencyAlerts(m) :
                       lastCall.result[i].severity = "critical"
                         <=> Greater(lastCall.result[i].change,
                                     Whole(2 * latencyThresholdOf(lastCall.thresholds)))
            ELSE AlertsFor(m) = {}
    /\ SortedByChange

\* What the code computes: the same with the MEAN latency of the baseline
\* records in the place of their p95.
C29_LatencyAlertAgainstBaselineMean ==
  Detected =>
    /\ \A m \in RegressionModels :
          IF Len(BaselineWindow(m)) >= 10
            THEN /\ LatencyAlerts(m) # {}
                       <=> /\ CurrentWindow(m) # <<>>
                           /\ (CurrentP95(m) * Len(BaselineWindow(m))
                                  - SumOf(LatenciesOf(BaselineWindow(m)))) * 100
                                 > latencyThresholdOf(lastCall.thresholds)
                                     * SumOf(LatenciesOf(BaselineWindow(m)))
                 /\ \A i \in LatencyAlerts(m) :
                       lastCall.result[i].severity = "critical"
                         <=> Greater(lastCall.result[i].change,
                                     Whole(2 * latencyThresholdOf(lastCall.thresholds)))
            ELSE AlertsFor(m) = {}
    /\ SortedByChange

\* Nine baseline records of 10 ms and one of 100 ms (p95 100 ms, mean 19 ms)
\* and a current p95 of 30 ms: a latency alert although 30 < 100.
C29_AlertBelowBaselineP95 ==
  /\ Detected
  /\ lastCall.thresholds = <<>>
  /\ Len(BaselineWindow("m1")) = 10
  /\ BaselineP95("m1") = 100
  /\ CurrentP95("m1") = 30
  /\ \E i \in LatencyAlerts("m1") :
        /\ lastCall.result[i].baseline = <<19, 1>>
        /\ lastCall.result[i].change = <<1100, 19>>
        /\ lastCall.result[i].severity = "warning"

OverBudget ==
  /\ Truncated
  /\ lastCall.maxChars >= 0
  /\ Len(lastCall.content) > lastCall.maxChars

BatchTruncated ==
  /\ lastCall.op = "truncateToolResults"
  /\ totalOriginalOf(lastCall.results) > lastCall.totalBudgetChars

RECURSIVE CombinedLength(_)
CombinedLength(results) ==
  IF results = <<>> THEN 0 ELSE Len(Head(results).content) + CombinedLength(Tail(results))

CountedUnder(event) ==
  (IF "provider" \in DOMAIN event THEN event.provider ELSE "unknown")
    \o "::" \o (IF "model" \in DOMAIN event THEN event.model ELSE "unknown")

RecordedSinceReset(key) ==
  Cardinality({ i \in DOMAIN sinceReset : CountedUnder(sinceReset[i]) = key })

RECURSIVE CountsOf(_)
CountsOf(keys) ==
  IF keys = {} THEN 0
  ELSE LET k == CHOOSE x \in keys : TRUE
       IN  entries[k].successCount + entries[k].failCount + CountsOf(keys \ {k})

\* C32: for every entry, successCount + failCount is the number of events
\* recorded for its key since the last reset and is at least 1; totalEvents
\* is the sum of successCount + failCount over the entries; an event with a
\* missing provider or model is counted under "unknown".
C32_EntryCountsMatchEvents ==
  /\ \A key \in DOMAIN entries :
        /\ entries[key].successCount + entries[key].failCount = RecordedSinceReset(key)
        /\ entries[key].successCount + entries[key].failCount >= 1
        /\ key = entries[key].provider \o "::" \o entries[key].model
  /\ totalEvents = CountsOf(DOMAIN entries)
  /\ \A i \in DOMAIN sinceReset : CountedUnder(sinceReset[i]) \in DOMAIN entries

\* A record, a reset, then two events of model gpt-4 without provider, the
\* second one failed: one entry, under unknown::gpt-4, counting both.
C32_Witness ==
  /\ sbClock = 3
  /\ uptimeSince = 1
  /\ Len(sinceReset) = 2
  /\ "provider" \notin DOMAIN sinceReset[1]
  /\ "model" \in DOMAIN sinceReset[1]
  /\ ~sinceReset[2].success
  /\ DOMAIN entries = {"unknown::gpt-4"}
  /\ entries["unknown::gpt-4"].successCount = 1
  /\ entries["unknown::gpt-4"].failCount = 1
  /\ totalEvents = 2

(***************************************************************************)
(* Properties of validateCompaction.                                       *)
(***************************************************************************)
\* A successful compaction validated against a dump, with a summary of at
\* least 50 characters and both token counts.
ValidatedWithCounts ==
  /\ lastCall.op = "validateCompaction"
  /\ Truthy(lastCall.preCompactDump)
  /\ lastCall.compactedResult.ok /\ lastCall.compactedResult.compacted
  /\ "result" \in DOMAIN lastCall.compactedResult
  /\ DOMAIN lastCall.compactedResult.result = {"summary", "tokensBefore", "tokensAfter"}
  /\ lastCall.compactedResult.result.summary >= 50

RejectedAsInsufficient ==
  /\ ~lastCall.result.approved
  /\ \E i \in DOMAIN lastCall.result.reasons :
        lastCall.result.reasons[i][1] = "Insufficient token reduction"

\* C31: with a dump and a summary of at least 50 characters, a successful
\* compaction is not rejected for insufficient token reduction when
\* tokensAfter <= 0.9 x tokensBefore, and is rejected with an "Insufficient
\* token reduction" reason when the reduction is smaller than 10%.
C31_TenPercentIsEnough ==
  ValidatedWithCounts =>
    IF lastCall.compactedResult.result.tokensAfter * 10
         <= lastCall.compactedResult.result.tokensBefore * 9
      THEN ~RejectedAsInsufficient
      ELSE RejectedAsInsufficient

\* What the code does: a reduction of exactly 10% is rejected too.
C31_MoreThanTenPercentNeeded ==
  ValidatedWithCounts =>
    IF lastCall.compactedResult.result.tokensAfter * 10
         < lastCall.compactedResult.result.tokensBefore * 9
      THEN lastCall.result = [approved |-> TRUE]
      ELSE RejectedAsInsufficient

\* 10 tokens compacted to 9: rejected.
C31_ExactlyTenPercentRejected ==
  /\ ValidatedWithCounts
  /\ lastCall.compactedResult.result.tokensBefore = 10
  /\ lastCall.compactedResult.result.tokensAfter = 9
  /\ lastCall.result =
       [approved |-> FALSE,
        reasons |-> << <<"Insufficient token reduction", ": ", "10", " -> ", "9">> >>]

(***************************************************************************)
(* Properties of the trace context.                                        *)
(***************************************************************************)
\* C22: in every task, currentTraceContext() is the ctx of the innermost
\* withTraceContext call the task is inside; with no such call it is the
\* context the task was created in, which is undefined for a task started
\* outside every frame - whatever the other tasks are inside of.
C22_TraceContextScoped ==
  \A t \in Tasks :
    createdIn[t] # "unborn" =>
      currentTraceContext(t) =
        IF entered[t] # <<>> THEN entered[t][Len(entered[t])] ELSE createdIn[t]

C22_Witness ==
  /\ entered["main"] = <<"outer">>
  /\ currentTraceContext("main") = "outer"
  /\ createdIn["child"] = "inner"
  /\ currentTraceContext("child") = "inner"
  /\ createdIn["sibling"] = NoContext
  /\ entered["sibling"] = <<>>
  /\ currentTraceContext("sibling") = NoContext

(***************************************************************************)
(* Properties of withTelemetry.                                            *)
(***************************************************************************)
\* C21: a withTelemetry call that has settled emitted exactly one event, and
\* that event was dispatched: if fn resolved, the event has success = true
\* and a latency, and the call resolved with fn's result; if fn rejected,
\* the event has success = false and fn's error message, and the call
\* rejected with the same error.
C21_WithTelemetryEmitsOnce ==
  wpc \in {"resolved", "rejected"} =>
    /\ Len(wEvents) = 1
    /\ outcome[wEvents[1]] = "returned"
    /\ wResult = fnOutcome
    /\ fnOutcome.kind = "value" =>
         /\ wpc = "resolved"
         /\ wtEvent[wEvents[1]].success
         /\ "latencyMs" \in DOMAIN wtEvent[wEvents[1]]
    /\ fnOutcome.kind = "error" =>
         /\ wpc = "rejected"
         /\ ~wtEvent[wEvents[1]].success
         /\ wtEvent[wEvents[1]].errorMessage = ErrorMessageOf(fnOutcome.error)

C21_Witness ==
  /\ wpc = "rejected"
  /\ fnOutcome.error = [isError |-> TRUE, message |-> "fail"]
  /\ wtEvent[wEvents[1]].errorMessage = "fail"
  /\ listeners = <<UserListener("a")>>
  /\ seen[UserListener("a")] = <<1, 2>>
  /\ wEvents = <<2>>

(***************************************************************************)
(* Properties of telemetry dispatch and the scoreboard.                    *)
(***************************************************************************)
RECURSIVE Occurrences(_, _)
Occurrences(events, e) ==
  IF events = <<>> THEN 0
  ELSE (IF Head(events) = e THEN 1 ELSE 0) + Occurrences(Tail(events), e)

Ends(e) == outcome[e] = "dispatching" /\ outcome'[e] # "dispatching"

\* C18: when a registered listener throws during an emitTelemetry call,
\* every registered listener is still invoked with the event and the call
\* returns normally: no emitTelemetry call ends by propagating an error, and
\* when it returns each registered listener has been invoked with its event
\* exactly once.
C18_ThrowingListenerIsolated ==
  [][\A e \in Events :
       Ends(e) =>
         /\ outcome'[e] = "returned"
         /\ \A i \in 1..Len(listeners') : Occurrences(seen'[listeners'[i]], e) = 1]_vars

C18_Witness ==
  /\ outcome[1] = "returned"
  /\ Len(listeners) = 2
  /\ threwOn[1] = {listeners[1]}
  /\ seen[listeners[1]] = <<1>>
  /\ seen[listeners[2]] = <<1>>

\* The number of records stored for a session id.
StoredIn(db, id) == Len(SelectSeq(db, LAMBDA rec : rec.id = id))

\* C37: each started telemetry session yields at most one stored record.  A
\* session that completeTelemetrySession was called on has left the active
\* set, also when storing its record failed; a session removed by
\* cancelTelemetrySession, by cleanupStaleSessions or by a failed store has no
\* stored record; and no call stores a record for an id that is not in the
\* active set, so a further completeTelemetrySession stores nothing.
C37_AtMostOneStoredRecord ==
  /\ [](\A id \in SessionIds :
          /\ StoredIn(storedRecords, id) <= 1
          /\ StoredIn(storedRecords, id) = 1 => removedBy[id] = "complete"
          /\ removedBy[id] \in {"cancel", "cleanup", "complete-failed"} =>
               StoredIn(storedRecords, id) = 0
          /\ (removedBy[id] # "none" \/ completedWith[id] # <<>>) =>
               id \notin DOMAIN activeSessions)
  /\ [][\A id \in SessionIds :
          id \notin DOMAIN activeSessions =>
            StoredIn(storedRecords', id) = StoredIn(storedRecords, id)]_vars

\* The first session was completed and stored, the store of the second
\* failed, and both have left the active set.
C37_Witness ==
  /\ removedBy["tel-1"] = "complete"
  /\ removedBy["tel-2"] = "complete-failed"
  /\ Len(storedRecords) = 1
  /\ storedRecords[1].id = "tel-1"
  /\ activeSessions = NoSessions

\* The stored record of a session carries field f with the value last set
\* through updateTelemetrySession, if it was set and the completion result
\* does not have f.
UpdateKept(rec, f) ==
  (f \in DOMAIN updatesOf[rec.id] /\ f \notin DOMAIN completedWith[rec.id]) =>
    (f \in DOMAIN rec /\ rec[f] = updatesOf[rec.id][f])

\* C38 as stated: retryCount, escalationCodes or artifactBytes set on an
\* active session through updateTelemetrySession appears with that value in
\* the record completeTelemetrySession stores, whenever the completion result
\* does not supply the field.
C38_UpdatedFieldsStored ==
  \A i \in 1..Len(storedRecords) :
    \A f \in {"retryCount", "escalationCodes", "artifactBytes"} :
      UpdateKept(storedRecords[i], f)

\* C38, what the code guarantees: retryCount and artifactBytes set through
\* updateTelemetrySession are kept; escalationCodes is what the completion
\* result has, and absent when the result has none.
C38_RetryCountAndArtifactBytesStored ==
  \A i \in 1..Len(storedRecords) :
    /\ UpdateKept(storedRecords[i], "retryCount")
    /\ UpdateKept(storedRecords[i], "artifactBytes")
    /\ "escalationCodes" \in DOMAIN storedRecords[i] <=>
         "escalationCodes" \in DOMAIN completedWith[storedRecords[i].id]
    /\ "escalationCodes" \in DOMAIN storedRecords[i] =>
         storedRecords[i].escalationCodes = completedWith[storedRecords[i].id].escalationCodes

\* escalationCodes was set through updateTelemetrySession, the completion
\* result had none, and the stored record has none.
C38_EscalationCodesLost ==
  /\ Len(storedRecords) = 1
  /\ storedRecords[1].id = "tel-1"
  /\ updatesOf["tel-1"] = [escalationCodes |-> <<"E1">>]
  /\ completedWith["tel-1"] = [status |-> "success"]
  /\ "escalationCodes" \notin DOMAIN storedRecords[1]
  /\ storedRecords[1].retryCount = 0

\* C35 as stated: when a listener unsubscribes itself or another listener
\* while an event is being dispatched, every listener that was registered
\* when the dispatch began and has not been unsubscribed receives the event
\* exactly once.  Listeners are registered only between dispatches, so the
\* listeners registered when emitTelemetry returns are those registered when
\* it began that have not been unsubscribed.
C35_RemainingListenersReceiveOnce ==
  [][\A e \in Events :
       Ends(e) =>
         \A l \in UserListeners : Registered(l)' => Occurrences(seen'[l], e) = 1]_vars

\* C35, what the code guarantees: no listener receives an event twice, and a
\* listener that is no longer registered when an activation starts does not
\* receive its event.
C35_ReceivedAtMostOnce ==
  \A e \in Events : \A l \in UserListeners : Occurrences(seen[l], e) <= 1

\* Listener a, registered first, unsubscribed itself while receiving event
\* 1; b, registered after it and never unsubscribed, did not receive it.
C35_ListenerSkipped ==
  /\ outcome[1] = "returned"
  /\ listeners = <<UserListener("b")>>
  /\ seen[UserListener("a")] = <<1>>
  /\ seen[UserListener("b")] = <<>>

\* C19: every listener observes events in the order in which emitTelemetry
\* was called (events are numbered in call order), also when a listener
\* emits while an earlier event is still being dispatched.
C19_EmissionOrder ==
  \A l \in Listeners :
    \A i, j \in 1..Len(seen[l]) : i < j => seen[l][i] < seen[l][j]

RecordedTimes(e) ==
  LET RECURSIVE Sum(_)
      Sum(k) == IF k = 0 THEN 0 ELSE Occurrences(seen[RecordClosure(k)], e) + Sum(k - 1)
  IN  Sum(MaxClosures)

RegisteredClosures == {i \in 1..Len(listeners) : listeners[i].fn = "record"}

\* C20: after one or more consecutive start() calls one record closure is
\* registered and each event emitted from then on is recorded once; after
\* stop(), called once or repeatedly, none is registered and no event
\* emitted from then on is recorded.
C20_StartStopIdempotent ==
  /\ sbLast.op = "start" => Cardinality(RegisteredClosures) = 1
  /\ sbLast.op = "stop" => Cardinality(RegisteredClosures) = 0
  /\ \A e \in Events :
       outcome[e] = "returned" =>
         RecordedTimes(e) = IF sbAtEmit[e].op = "start" THEN 1 ELSE 0

C20_Witness ==
  /\ sbAtEmit[1] = [op |-> "start", times |-> 2]
  /\ sbAtEmit[2] = [op |-> "stop", times |-> 2]
  /\ outcome[1] = "returned"
  /\ outcome[2] = "returned"
  /\ RecordedTimes(1) = 1
  /\ RecordedTimes(2) = 0
  /\ totalEvents = 1

\* C36 as stated: under every interleaving of start(), stop(),
\* clearTelemetryListeners() and emitTelemetry(), an event emitted after a
\* start() call returned and before the next stop() is recorded by the
\* scoreboard.
C36_RecordedWhileStarted ==
  \A e \in Events :
    (outcome[e] = "returned" /\ sbAtEmit[e].op = "start") => RecordedTimes(e) = 1

\* C36, what the code guarantees: an event is recorded at most once, and
\* only when the closure start() registered is still in the listeners array,
\* which requires that the last scoreboard call was start().
C36_RecordedOnlyWhileStarted ==
  \A e \in Events :
    outcome[e] = "returned" =>
      /\ RecordedTimes(e) <= 1
      /\ RecordedTimes(e) = 1 => sbAtEmit[e].op = "start"

\* start() was called twice in a row, the second time after the listeners
\* were cleared; the event emitted next was not recorded.
C36_StartedButNotRecorded ==
  /\ sbAtEmit[1] = [op |-> "start", times |-> 2]
  /\ unsubscribe # 0
  /\ listeners = <<>>
  /\ outcome[1] = "returned"
  /\ RecordedTimes(1) = 0
  /\ totalEvents = 0

NoTokenGrowth == [shouldCompact |-> FALSE, reason |-> "no-token-growth"]

ThresholdHit == [shouldCompact |-> TRUE, reason |-> "threshold-hit"]

\* C11 as stated: for fixed cfg, totalTokens, contextTokens and now, a second
\* decideSessionAutoCompact invocation made with lastAutoCompactAtTokens set
\* to totalTokens returns shouldCompact = false with reason no-token-growth.
C11_SecondCallNoTokenGrowth ==
  dout2 # NoDecision => dout2 = NoTokenGrowth

\* C11 amended: when the first invocation returned threshold-hit, a second
\* invocation with the same cfg, totalTokens, contextTokens, now and
\* lastAutoCompactAt, and lastAutoCompactAtTokens set to totalTokens, returns
\* shouldCompact = false with reason no-token-growth.
C11_SecondCallAfterHitNoTokenGrowth ==
  (dout2 # NoDecision /\ dout = ThresholdHit) => dout2 = NoTokenGrowth

C11_Witness ==
  /\ dout = ThresholdHit
  /\ dout2 = NoTokenGrowth
  /\ din.lastAutoCompactAt > 0
  /\ din.cfg.minIntervalMs > 0

(***************************************************************************)
(* Specifications.                                                         *)
(***************************************************************************)
IdleInputs ==
  [cfg |-> NoCall.cfg, totalTokens |-> 0, contextTokens |-> 0, now |-> 0,
   lastAutoCompactAt |-> 0, lastAutoCompactAtTokens |-> 0]

\* After construction: executeWithRetry is about to make its first attempt,
\* the store file is empty and unlocked, every process is idle.
Init ==
  /\ rpc = "run"
  /\ retryCount = 0
  /\ runCalls = 0
  /\ onRetryCalls = 0
  /\ onEscalationCalls = 0
  /\ retryLog = <<>>
  /\ thrown = <<>>
  /\ retryArgs = <<>>
  /\ escInfos = <<>>
  /\ runValue = NoValue
  /\ resolved = NoValue
  /\ rejected = NoError
  /\ store = EmptyStore
  /\ lockHolder = NoProc
  /\ spc = [p \in Procs |-> "idle"]
  /\ call = [p \in Procs |-> NoCall]
  /\ draft = [p \in Procs |-> EmptyStore]
  /\ decision = [p \in Procs |-> UnsetDecision]
  /\ lastReturn = [p \in Procs |-> NoReturn]
  /\ concurrentWith = [p \in Procs |-> {}]
  /\ lastHit = EmptyStore
  /\ warned = [p \in Procs |-> FALSE]
  /\ warnLog = [k \in Keys |-> {}]
  /\ written = {}
  /\ authStore = NoProfiles
  /\ env = [v \in EnvVars |-> ""]
  /\ syncResult = NoSyncResult
  /\ memProfiles = NoProfiles
  /\ consecutive = 0
  /\ raisedAt = 0
  /\ listeners = <<>>
  /\ frames = <<>>
  /\ emitted = 0
  /\ seen = [l \in Listeners |-> <<>>]
  /\ outcome = [e \in Events |-> "none"]
  /\ threwOn = [e \in Events |-> {}]
  /\ unsubscribe = 0
  /\ closures = 0
  /\ totalEvents = 0
  /\ sbLast = NoScoreboardCall
  /\ sbAtEmit = [e \in Events |-> NoScoreboardCall]
  /\ din = IdleInputs
  /\ dout = NoDecision
  /\ dout2 = NoDecision
  /\ wpc = "idle"
  /\ wStart = 0
  /\ fnOutcome = NoOutcome
  /\ wResult = NoOutcome
  /\ wEvents = <<>>
  /\ wtEvent = [e \in Events |-> NoFields]
  /\ taskStore = [t \in Tasks |-> NoContext]
  /\ savedStores = [t \in Tasks |-> <<>>]
  /\ entered = [t \in Tasks |-> <<>>]
  /\ createdIn = [t \in Tasks |-> IF t = "main" THEN NoContext ELSE "unborn"]
  /\ lastCall = NoOperation
  /\ entries = NoEntries
  /\ uptimeSince = 0
  /\ sbClock = 0
  /\ sinceReset = <<>>
  /\ activeSessions = NoSessions
  /\ storedRecords = <<>>
  /\ sessionClock = 0
  /\ sessionsStarted = 0
  /\ removedBy = [id \in SessionIds |-> "none"]
  /\ updatesOf = [id \in SessionIds |-> <<>>]
  /\ completedWith = [id \in SessionIds |-> <<>>]

\* The same, with the parameters of decideSessionAutoCompact drawn.
DecideInit ==
  /\ rpc = "run"
  /\ retryCount = 0
  /\ runCalls = 0
  /\ onRetryCalls = 0
  /\ onEscalationCalls = 0
  /\ retryLog = <<>>
  /\ thrown = <<>>
  /\ retryArgs = <<>>
  /\ escInfos = <<>>
  /\ runValue = NoValue
  /\ resolved = NoValue
  /\ rejected = NoError
  /\ store = EmptyStore
  /\ lockHolder = NoProc
  /\ spc = [p \in Procs |-> "idle"]
  /\ call = [p \in Procs |-> NoCall]
  /\ draft = [p \in Procs |-> EmptyStore]
  /\ decision = [p \in Procs |-> UnsetDecision]
  /\ lastReturn = [p \in Procs |-> NoReturn]
  /\ concurrentWith = [p \in Procs |-> {}]
  /\ lastHit = EmptyStore
  /\ warned = [p \in Procs |-> FALSE]
  /\ warnLog = [k \in Keys |-> {}]
  /\ written = {}
  /\ authStore = NoProfiles
  /\ env = [v \in EnvVars |-> ""]
  /\ syncResult = NoSyncResult
  /\ memProfiles = NoProfiles
  /\ consecutive = 0
  /\ raisedAt = 0
  /\ listeners = <<>>
  /\ frames = <<>>
  /\ emitted = 0
  /\ seen = [l \in Listeners |-> <<>>]
  /\ outcome = [e \in Events |-> "none"]
  /\ threwOn = [e \in Events |-> {}]
  /\ unsubscribe = 0
  /\ closures = 0
  /\ totalEvents = 0
  /\ sbLast = NoScoreboardCall
  /\ sbAtEmit = [e \in Events |-> NoScoreboardCall]
  /\ din \in DecideInputs
  /\ dout = NoDecision
  /\ dout2 = NoDecision
  /\ wpc = "idle"
  /\ wStart = 0
  /\ fnOutcome = NoOutcome
  /\ wResult = NoOutcome
  /\ wEvents = <<>>
  /\ wtEvent = [e \in Events |-> NoFields]
  /\ taskStore = [t \in Tasks |-> NoContext]
  /\ savedStores = [t \in Tasks |-> <<>>]
  /\ entered = [t \in Tasks |-> <<>>]
  /\ createdIn = [t \in Tasks |-> IF t = "main" THEN NoContext ELSE "unborn"]
  /\ lastCall = NoOperation
  /\ entries = NoEntries
  /\ uptimeSince = 0
  /\ sbClock = 0
  /\ sinceReset = <<>>
  /\ activeSessions = NoSessions
  /\ storedRecords = <<>>
  /\ sessionClock = 0
  /\ sessionsStarted = 0
  /\ removedBy = [id \in SessionIds |-> "none"]
  /\ updatesOf = [id \in SessionIds |-> <<>>]
  /\ completedWith = [id \in SessionIds |-> <<>>]

\* One executeWithRetry call.
SpecRetry == Init /\ [][RetryNext]_vars

StoreRaceNext == StoreNext(Procs, {"k1"})

\* Two processes calling decideAndRecordSessionAutoCompact on one session key.
SpecStoreRace == Init /\ [][StoreRaceNext]_vars

StoreKeysNext == StoreNext({"p1"}, Keys)

\* One process calling decideAndRecordSessionAutoCompact on several session keys.
SpecStoreKeys == Init /\ [][StoreKeysNext]_vars

StoreClockNext ==
  \/ StoreNext({"p1"}, {"k1"})
  \/ RecordNext("p1", {"k1"})
  \/ WarnNext("p1", {"k1"})
  \/ UsageNext({"k1"})

\* One process using every writer of the store on one session key, with
\* arbitrary clock readings.
SpecStoreClock == Init /\ [][StoreClockNext]_vars

StoreWritersNext ==
  \/ RecordNext("p1", {"k1"})
  \/ StoreNext({"p2"}, {"k2"})

\* Two processes, each updating the entry of its own session key: p1 with
\* recordSessionAutoCompactState, p2 with decideAndRecordSessionAutoCompact.
SpecStoreWriters == Init /\ [][StoreWritersNext]_vars

WarnRaceNext ==
  \/ \E p \in Procs : WarnNext(p, {"k1"})
  \/ UsageNext({"k1"})

\* Two processes calling maybeWarnSessionTokenPressure for one session while
\* its usage changes.
SpecWarnRace == Init /\ [][WarnRaceNext]_vars

\* The auth-profile store under autosync runs, environment changes and other
\* writers.
SpecAuth == Init /\ [][AuthNext]_vars

\* Callers registering and removing listeners and emitting events; listeners
\* that return, throw, or emit in turn.
SpecTelemetry == Init /\ [][TelemetryNext]_vars

\* The scoreboard started and stopped between emissions, next to one other
\* listener.
SpecScoreboard == Init /\ [][ScoreboardNext]_vars

\* withTelemetry calls made one after another next to another emitter.
SpecWithTelemetry == Init /\ [][WithTelemetryNext]_vars

\* Telemetry sessions started, updated, completed, cancelled and cleaned up
\* in any order while time passes.
SpecSessions == Init /\ [][SessionsNext]_vars

\* Listeners that unsubscribe themselves or each other while an event is
\* being dispatched to them.
SpecUnsubscribe == Init /\ [][UnsubscribeNext]_vars

\* The scoreboard started and stopped while a caller clears the listeners.
SpecClear == Init /\ [][ClearNext]_vars

\* Tasks entering and leaving withTraceContext frames in any interleaving.
SpecTrace == Init /\ [][TraceNext]_vars

\* pruneHistory on drawn histories, budgets and options.
SpecPrune == Init /\ [][PruneNext]_vars

\* estimateMessageTokens on drawn pairs of messages.
SpecEstimate == Init /\ [][EstimateNext]_vars

\* truncateToolResult on drawn contents, budgets and options.
SpecTruncate == Init /\ [][TruncateNext]_vars

\* shouldRetry on drawn errors and retry counts.
SpecShouldRetry == Init /\ [][ShouldRetryNext]_vars

\* detectRegressions on drawn stores and thresholds.
SpecRegression == Init /\ [][RegressionNext]_vars

\* validateCompaction on drawn dumps and compaction results.
SpecValidate == Init /\ [][ValidateNext]_vars

\* record() and reset() called on one Scoreboard in any order.
SpecScoreEntries == Init /\ [][ScoreEntriesNext]_vars

\* decideSessionAutoCompact on drawn parameters.
SpecDecide == DecideInit /\ [][DecideNext]_vars

====
